---------------------------- MODULE Spec2Model ----------------------------
(***************************************************************************)
(* Upload-files storage of nomad (src/nomad/files.py): the staging store,  *)
(* pack (staging -> public), and the read side of the public store.        *)
(*                                                                         *)
(* A file name is a sequence of chunks (<<"POTCAR", ".stripped">> is the   *)
(* name POTCAR.stripped), so that startswith/endswith are computed on the  *)
(* name.  A raw path is a sequence of names (<<A, Main>> is a/main).       *)
(* One content per path: a zip is the set of the names it holds.           *)
(***************************************************************************)
EXTENDS Naturals, Integers, Sequences, FiniteSets, TLC

\* ------------------------------------------------------------------ bounds
\* longest entry-metadata stream handed to pack
MaxEntries == 2
\* longest string handed to raw_path_is_well_formed
MaxPathLen == 4
\* the names create_tmp_dir tries for one prefix (range(1, 100) in the code)
MaxTmpIndex == 2
\* config.auxfile_cutoff
auxfile_cutoff == 1

\* ------------------------------------------------------------------ paths
A == <<"a">>
B == <<"b">>
Main == <<"main">>
Aux == <<"aux">>
Potcar == <<"POTCAR">>
PotcarStripped == <<"POTCAR", ".stripped">>

\* the raw files an upload may hold
RawFiles == { <<A, Main>>, <<A, Aux>>, <<A, Potcar>>, <<A, PotcarStripped>>, <<B, Main>> }

Access == {"public", "restricted"}

\* user_metadata.pickle is not there
NoFile == "NoFile"

\* os.path.basename of a raw path without trailing slash ('' for the empty path)
basename(path) == IF path = <<>> THEN <<>> ELSE path[Len(path)]

\* os.path.dirname of a raw path without trailing slash
dirname(path) == IF path = <<>> THEN <<>> ELSE SubSeq(path, 1, Len(path) - 1)

\* str.startswith / str.endswith on a name, for an affix that is one chunk
startswith(name, chunk) == Len(name) > 0 /\ name[1] = chunk
endswith(name, chunk) == Len(name) > 0 /\ name[Len(name)] = chunk

always_restricted_never(path) == FALSE

\* files.always_restricted: POTCAR* but not *.stripped
always_restricted(path) ==
    /\ startswith(basename(path), "POTCAR")
    /\ ~ endswith(basename(path), ".stripped")

\* ------------------------------------------------------- raw path strings
\* A raw path as the caller writes it is a string: a sequence of chunks in which
\* the chunk "/" is os.path.sep and the chunk "." is a dot ('..' is <<".", ".">>).
Sep == "/"
Dot == "."

\* str.split('/'): the elements between the separators, [''] for ''
RECURSIVE split(_)
split(s) ==
    IF \A i \in 1..Len(s) : s[i] # Sep THEN << s >>
    ELSE LET i == CHOOSE k \in 1..Len(s) : s[k] = Sep /\ \A j \in 1..(k - 1) : s[j] # Sep
         IN  << SubSeq(s, 1, i - 1) >> \o split(SubSeq(s, i + 1, Len(s)))

\* str.rstrip('/')
RECURSIVE rstrip(_)
rstrip(s) == IF s # <<>> /\ s[Len(s)] = Sep THEN rstrip(SubSeq(s, 1, Len(s) - 1)) ELSE s

\* the raw path (sequence of names) a well-formed string without trailing
\* separator denotes: '' is the raw root
raw_path(s) == IF s = <<>> THEN <<>> ELSE split(s)

raw_path_is_well_formed_no_dotdot(s) ==
    IF s = <<>> THEN TRUE
    ELSE IF s[1] = Sep \/ \E i \in 1..(Len(s) - 1) : s[i] = Sep /\ s[i + 1] = Sep THEN FALSE
    ELSE \A i \in 1..Len(split(s)) : split(s)[i] # << Dot >>

\* UploadFiles.raw_path_is_well_formed(path) for a str argument
raw_path_is_well_formed(s) ==
    IF s = <<>> THEN TRUE
    ELSE IF s[1] = Sep \/ \E i \in 1..(Len(s) - 1) : s[i] = Sep /\ s[i + 1] = Sep THEN FALSE
    ELSE \A i \in 1..Len(split(s)) :
            split(s)[i] # << Dot >> /\ split(s)[i] # << Dot, Dot >>

\* utils.hash(upload_id, mainfile): one id per mainfile of the upload
upload_id == "u"
calc_id(mainfile) == <<upload_id, mainfile>>

CalcIds == { calc_id(f) : f \in RawFiles }

\* archive records: what a parser wrote, and the empty record {} pack substitutes
Record == "record"
EmptyRecord == "empty"

\* ------------------------------------------------------------------ state
VARIABLES
    prefix_size,        \* config.fs.prefix_size
    stagingExists,      \* the staging directory of the upload exists
    rawTree,            \* the regular files below <staging>/raw
    stagingArchive,     \* calc_id -> record of <staging>/archive/<calc_id>.msg
    frozen,             \* <staging>/.frozen exists
    userMetadata,       \* content of <staging>/user_metadata.pickle, or NoFile
    sharedExists,       \* the unsharded <public>/<upload_id> directory exists
    publicExists,       \* the (sharded) public directory of the upload exists
    rawZip,             \* access -> raw-<access>.plain.zip: [exists, names]
    msgFile,            \* access -> archive-<access>.msg.msg: [exists, records: calc_id -> record]
    directories,        \* PublicUploadFiles._directories: [built, map]; built = FALSE is None
    rawZipHandles,      \* PublicUploadFiles._raw_zip_files: access -> names of the opened zip
    closedZips,         \* the handles of _raw_zip_files that have been closed
    msgHandles,         \* PublicUploadFiles._archive_msg_files: access -> records of the opened archive
    tmpDirs,            \* the directories below config.fs.tmp
    rawZipRepacked,     \* access -> raw-<access>repacked.plain.zip: [exists, names]
    msgFileRepacked,    \* access -> archive-<access>repacked.msg.msg: [exists, records]
    lastPacked,         \* history: the entries the live public files were packed from
    pc,                 \* the calls in progress: thread -> its position and locals
    result              \* the last call: its arguments and its outcome

diskVars == <<prefix_size, stagingExists, rawTree, stagingArchive, frozen, userMetadata,
              sharedExists, publicExists, rawZip, msgFile,
              tmpDirs, rawZipRepacked, msgFileRepacked, lastPacked>>
repackVars == <<rawZipRepacked, msgFileRepacked, lastPacked>>
stagingVars == <<stagingExists, rawTree, stagingArchive, frozen, userMetadata>>
publicVars == <<sharedExists, publicExists, rawZip, msgFile>>
storeVars == <<directories, rawZipHandles, msgHandles>>
vars == <<prefix_size, stagingExists, rawTree, stagingArchive, frozen, userMetadata,
          sharedExists, publicExists, rawZip, msgFile,
          tmpDirs, rawZipRepacked, msgFileRepacked, lastPacked,
          directories, rawZipHandles, closedZips, msgHandles, pc, result>>

EmptyMap == [x \in {} |-> x]

\* a zip / an archive file that is not there, and one just created
NoZip == [exists |-> FALSE, names |-> {}]
NoMsg == [exists |-> FALSE, records |-> EmptyMap]
Zip(names) == [exists |-> TRUE, names |-> names]
Msg(records) == [exists |-> TRUE, records |-> records]

NoDirectories == [built |-> FALSE, map |-> EmptyMap]

\* no call is in progress
Idle == EmptyMap

\* history of the live public files: the entries of the last pack or re_pack
\* that wrote both the archive files and the raw zips and met no failure
\* (by: "pack" or "re_pack")
NotPacked == [known |-> FALSE, by |-> "none", entries |-> {}]
PackedFrom(entries) ==
    [known |-> TRUE, by |-> "pack", entries |-> { entries[i] : i \in 1..Len(entries) }]
RepackedFrom(entries) ==
    [known |-> TRUE, by |-> "re_pack", entries |-> { entries[i] : i \in 1..Len(entries) }]

PrefixSizes == {0, 2}

\* no upload on disk; the caches of a store object are empty
Init ==
    /\ prefix_size \in PrefixSizes
    /\ stagingExists = FALSE
    /\ rawTree = {}
    /\ stagingArchive = EmptyMap
    /\ frozen = FALSE
    /\ userMetadata = NoFile
    /\ sharedExists = FALSE
    /\ publicExists = FALSE
    /\ rawZip = [a \in Access |-> NoZip]
    /\ msgFile = [a \in Access |-> NoMsg]
    /\ tmpDirs = {}
    /\ closedZips = {}
    /\ pc = Idle
    /\ rawZipRepacked = [a \in Access |-> NoZip]
    /\ msgFileRepacked = [a \in Access |-> NoMsg]
    /\ lastPacked = NotPacked
    /\ directories = NoDirectories
    /\ rawZipHandles = EmptyMap
    /\ msgHandles = EmptyMap
    /\ result = [op |-> "none"]

\* ------------------------------------------------------- staging: helpers
\* os.path.exists below raw/: a regular file, or a directory on the way to one
path_exists(tree, path) ==
    \/ path \in tree
    \/ \E f \in tree : Len(f) > Len(path) /\ SubSeq(f, 1, Len(path)) = path

\* StagingUploadFiles.is_frozen
is_frozen == frozen

\* StagingUploadFiles.raw_file_manifest(): every regular file below raw/
staging_raw_file_manifest(tree) == tree

calc_files_mainfile_only(tree, mainfile) == {mainfile}

\* StagingUploadFiles.calc_files(mainfile, with_cutoff=False), as the set of its
\* elements: the mainfile and the regular files of its directory
calc_files(tree, mainfile) ==
    {mainfile} \cup { f \in tree : dirname(f) = dirname(mainfile) /\ f # mainfile }

\* the entry metadata of an upload: one entry per mainfile, which is a file of the
\* raw tree; calc_id is derived from the mainfile
EntryRecords(tree) ==
    { [calc_id |-> calc_id(f), mainfile |-> f, with_embargo |-> e] :
        f \in tree, e \in BOOLEAN }

Entries(tree) ==
    { s \in UNION { [1..n -> EntryRecords(tree)] : n \in 0..MaxEntries } :
        \A i, j \in 1..Len(s) : i # j => s[i].mainfile # s[j].mainfile }

\* --------------------------------------------------------- pack: raw files
\* _pack_raw_files 1.1: the loop over the entries that fills public_files;
\* calc_files raises KeyError for a mainfile that does not exist
RECURSIVE collect_public_files(_, _, _, _)
collect_public_files(tree, entries, i, public_files) ==
    IF i > Len(entries) THEN [failed |-> FALSE, files |-> public_files]
    ELSE LET calc == entries[i] IN
         IF calc.with_embargo \/ calc.mainfile \in public_files
         THEN collect_public_files(tree, entries, i + 1, public_files)
         ELSE IF ~ path_exists(tree, calc.mainfile)
         THEN [failed |-> TRUE, files |-> public_files]
         ELSE collect_public_files(tree, entries, i + 1,
                  public_files \cup
                  { f \in calc_files(tree, calc.mainfile) : ~ always_restricted(f) })

remove_embargoed_mainfiles_skipped(entries, public_files) == public_files

\* _pack_raw_files 1.2: the mainfiles of embargoed entries leave public_files
remove_embargoed_mainfiles(entries, public_files) ==
    public_files \ { entries[i].mainfile : i \in { j \in 1..Len(entries) : entries[j].with_embargo } }

restricted_files_all(tree, public_files) == staging_raw_file_manifest(tree)

\* _pack_raw_files 2: everything else of the manifest becomes restricted
restricted_files(tree, public_files) ==
    { f \in staging_raw_file_manifest(tree) : f \notin public_files }

\* _pack_raw_files: the two zips it leaves behind (both are created first and
\* closed in the finally clause; an exception ends the writing and is logged)
pack_raw_files(tree, entries) ==
    LET collected == collect_public_files(tree, entries, 1, {})
        public_files == remove_embargoed_mainfiles(entries, collected.files)
    IN  IF collected.failed
        THEN [public |-> Zip({}), restricted |-> Zip({})]
        ELSE [public |-> Zip(public_files),
              restricted |-> Zip(restricted_files(tree, public_files))]

\* ------------------------------------------------------ pack: archive files
\* _pack_archive_files.create_iterator(with_embargo): the (calc_id, record) pairs
\* of the entries with that embargo flag; {} for a missing staging archive file
create_iterator(archive, entries, with_embargo) ==
    [ id \in { entries[i].calc_id :
                 i \in { j \in 1..Len(entries) : entries[j].with_embargo = with_embargo } } |->
        IF id \in DOMAIN archive THEN archive[id] ELSE EmptyRecord ]

\* _pack_archive_files: the public and the restricted archive file
pack_archive_files(archive, entries) ==
    [public |-> Msg(create_iterator(archive, entries, FALSE)),
     restricted |-> Msg(create_iterator(archive, entries, TRUE))]

get_public_first ==
    IF publicExists THEN "PublicUploadFiles"
    ELSE IF stagingExists THEN "StagingUploadFiles"
    ELSE "None"

\* UploadFiles.get(upload_id): the class of the store it returns, or None
get ==
    IF stagingExists THEN "StagingUploadFiles"
    ELSE IF publicExists THEN "PublicUploadFiles"
    ELSE "None"

\* ------------------------------------------------------- staging: actions
\* StagingUploadFiles(upload_id, create=True) for a new upload: the staging
\* directory with raw/ and archive/, and _shared = <public>/<upload_id>
\* (without prefix); with prefix_size = 0 that is the public directory itself
Create ==
    /\ ~ stagingExists
    /\ ~ publicExists
    /\ ~ sharedExists
    /\ stagingExists' = TRUE
    /\ rawTree' = {}
    /\ stagingArchive' = EmptyMap
    /\ frozen' = FALSE
    /\ userMetadata' = NoFile
    /\ IF prefix_size = 0
       THEN publicExists' = TRUE /\ sharedExists' = sharedExists
       ELSE sharedExists' = TRUE /\ publicExists' = publicExists
    /\ result' = [op |-> "create", outcome |-> "ok"]
    /\ UNCHANGED <<tmpDirs, repackVars, pc, closedZips, prefix_size, rawZip, msgFile, storeVars>>

\* create_tmp_dir(prefix) on a temp root that holds dirs: the first free name
\* among prefix, prefix_2, ... (<<prefix, index>>), or RuntimeError
create_tmp_dir(dirs, prefix) ==
    LET free == { i \in 1..MaxTmpIndex : <<prefix, i>> \notin dirs } IN
    IF free = {} THEN [raised |-> TRUE, created |-> {}]
    ELSE [raised |-> FALSE,
          created |-> { <<prefix, CHOOSE i \in free : \A j \in free : i <= j>> }]

\* p is q or a directory on the way to q
IsPrefix(p, q) == Len(p) <= Len(q) /\ SubSeq(q, 1, Len(p)) = p

\* add_rawfiles, the loop over target_dir.split('/'): a file on the directory
\* chain is removed
prepare_target_dir(tree, target) == { g \in tree : ~ IsPrefix(g, target) }

\* add_rawfiles, the merge loop: an element replaces what is at its target
\* path, unless both are directories
merge(tree, target, files) ==
    LET new == { target \o f : f \in files } IN
    { g \in tree : \A n \in new : ~ IsPrefix(g, n) /\ ~ IsPrefix(n, g) } \cup new

\* the source of add_rawfiles: kind "missing" (path does not exist), "file",
\* "dir", or "archive" (zipfile.is_zipfile or tarfile.is_tarfile); files are the
\* regular files it holds, relative to source_dir, dirs the directories os.walk
\* lists besides the parents of its elements, links the symbolic links (os.walk
\* does not descend into them); parent is the directory of path when that is a
\* directory of the temp root, else Outside
Outside == <<"outside", 0>>
SourceTree(kind, files, dirs, links, parent) ==
    [kind |-> kind, files |-> files, dirs |-> dirs, links |-> links, parent |-> parent]
Source(kind, files, parent) == SourceTree(kind, files, {}, {}, parent)

\* the directories among the elements os.walk yields for the source
walked_dirs(source) ==
    source.dirs \cup
    UNION { { SubSeq(e, 1, i) : i \in 1..(Len(e) - 1) } :
              e \in source.files \cup source.dirs \cup source.links }

merge_source_with_links(tree, target, source) ==
    LET new_dirs == { target \o d : d \in walked_dirs(source) }
        new_files == { target \o f : f \in source.files \cup source.links }
    IN  { g \in tree : /\ \A d \in new_dirs : ~ IsPrefix(g, d)
                        /\ \A n \in new_files : ~ IsPrefix(g, n) /\ ~ IsPrefix(n, g) }
        \cup new_files

\* add_rawfiles, the merge loop over the elements of the source: a link is
\* skipped; a directory removes a file at its target path; a file removes the
\* file or the directory at its target path and is copied or moved there
merge_source(tree, target, source) ==
    LET new_dirs == { target \o d : d \in walked_dirs(source) }
        new_files == { target \o f : f \in source.files }
    IN  { g \in tree : /\ \A d \in new_dirs : ~ IsPrefix(g, d)
                        /\ \A n \in new_files : ~ IsPrefix(g, n) /\ ~ IsPrefix(n, g) }
        \cup new_files

\* os.path.join of the elements of a raw path
RECURSIVE path_string(_)
path_string(path) ==
    IF path = <<>> THEN <<>>
    ELSE IF Len(path) = 1 THEN path[1]
    ELSE path[1] \o << Sep >> \o path_string(Tail(path))

\* the failures of the environment inside add_rawfiles: none, extractall
\* raises, the first copy or move of the merge raises
AddFailures == {"none", "extract", "merge"}

add_rawfiles_no_frozen_check(source, target_dir, cleanup_source_file_and_dir, fail) ==
    /\ stagingExists
    /\ LET precondition == /\ source.kind # "missing"
                           /\ raw_path_is_well_formed(target_dir)
           tmp == IF precondition /\ source.kind = "archive"
                  THEN create_tmp_dir(tmpDirs, upload_id)
                  ELSE [raised |-> FALSE, created |-> {}]
           target == raw_path(rstrip(target_dir))
           outcome == IF ~ precondition THEN "AssertionError"
                      ELSE IF tmp.raised THEN "RuntimeError"
                      ELSE IF source.kind = "archive" /\ fail = "extract" THEN "ExtractError"
                      ELSE IF fail = "merge" THEN "OSError"
                      ELSE "ok"
           removed == tmp.created \cup
                      (IF cleanup_source_file_and_dir THEN {source.parent} ELSE {})
       IN  /\ rawTree' = IF outcome = "ok" THEN merge_source(prepare_target_dir(rawTree, target),
                                                      target, source)
                         ELSE IF outcome = "OSError" THEN prepare_target_dir(rawTree, target)
                         ELSE rawTree
           /\ tmpDirs' = (tmpDirs \cup tmp.created) \ removed
           /\ result' = [op |-> "add_rawfiles", outcome |-> outcome,
                         created |-> tmp.created,
                         cleanup |-> cleanup_source_file_and_dir, parent |-> source.parent]
    /\ UNCHANGED <<repackVars, pc, closedZips, prefix_size, stagingExists, stagingArchive, frozen,
                   userMetadata, publicVars, storeVars>>

add_rawfiles_no_finally(source, target_dir, cleanup_source_file_and_dir, fail) ==
    /\ stagingExists
    /\ LET precondition == /\ ~ is_frozen
                           /\ source.kind # "missing"
                           /\ raw_path_is_well_formed(target_dir)
           tmp == IF precondition /\ source.kind = "archive"
                  THEN create_tmp_dir(tmpDirs, upload_id)
                  ELSE [raised |-> FALSE, created |-> {}]
           target == raw_path(rstrip(target_dir))
           outcome == IF ~ precondition THEN "AssertionError"
                      ELSE IF tmp.raised THEN "RuntimeError"
                      ELSE IF source.kind = "archive" /\ fail = "extract" THEN "ExtractError"
                      ELSE IF fail = "merge" THEN "OSError"
                      ELSE "ok"
           removed == IF outcome # "ok" THEN {}
                      ELSE tmp.created \cup
                           (IF cleanup_source_file_and_dir THEN {source.parent} ELSE {})
       IN  /\ rawTree' = IF outcome = "ok" THEN merge_source(prepare_target_dir(rawTree, target),
                                                      target, source)
                         ELSE IF outcome = "OSError" THEN prepare_target_dir(rawTree, target)
                         ELSE rawTree
           /\ tmpDirs' = (tmpDirs \cup tmp.created) \ removed
           /\ result' = [op |-> "add_rawfiles", outcome |-> outcome,
                         created |-> tmp.created,
                         cleanup |-> cleanup_source_file_and_dir, parent |-> source.parent]
    /\ UNCHANGED <<repackVars, pc, closedZips, prefix_size, stagingExists, stagingArchive, frozen,
                   userMetadata, publicVars, storeVars>>

\* StagingUploadFiles.add_rawfiles(path, target_dir, cleanup_source_file_and_dir):
\* the assertions, the extraction of an archive into a new temp directory, the
\* merge into the raw tree, and the finally clause that removes the temp
\* directory and, on request, the source and its parent directory
add_rawfiles(source, target_dir, cleanup_source_file_and_dir, fail) ==
    /\ stagingExists
    /\ LET precondition == /\ ~ is_frozen
                           /\ source.kind # "missing"
                           /\ raw_path_is_well_formed(target_dir)
           tmp == IF precondition /\ source.kind = "archive"
                  THEN create_tmp_dir(tmpDirs, upload_id)
                  ELSE [raised |-> FALSE, created |-> {}]
           target == raw_path(rstrip(target_dir))
           outcome == IF ~ precondition THEN "AssertionError"
                      ELSE IF tmp.raised THEN "RuntimeError"
                      ELSE IF source.kind = "archive" /\ fail = "extract" THEN "ExtractError"
                      ELSE IF fail = "merge" THEN "OSError"
                      ELSE "ok"
           removed == tmp.created \cup
                      (IF cleanup_source_file_and_dir THEN {source.parent} ELSE {})
       IN  /\ rawTree' = IF outcome = "ok" THEN merge_source(prepare_target_dir(rawTree, target),
                                                      target, source)
                         ELSE IF outcome = "OSError" THEN prepare_target_dir(rawTree, target)
                         ELSE rawTree
           /\ tmpDirs' = (tmpDirs \cup tmp.created) \ removed
           /\ result' = [op |-> "add_rawfiles", outcome |-> outcome,
                         created |-> tmp.created,
                         cleanup |-> cleanup_source_file_and_dir, parent |-> source.parent]
    /\ UNCHANGED <<repackVars, pc, closedZips, prefix_size, stagingExists, stagingArchive, frozen,
                   userMetadata, publicVars, storeVars>>

write_archive_keeps_file(id, data, fail) ==
    /\ stagingExists
    /\ IF fail
       THEN /\ stagingArchive' = (id :> "partial") @@ stagingArchive
            /\ result' = [op |-> "write_archive", outcome |-> "Exception", calc_id |-> id]
       ELSE /\ stagingArchive' = (id :> data) @@ stagingArchive
            /\ result' = [op |-> "write_archive", outcome |-> "ok"]
    /\ UNCHANGED <<tmpDirs, repackVars, pc, closedZips, prefix_size, stagingExists, rawTree, frozen, userMetadata,
                   publicVars, storeVars>>

\* write_archive(calc_id, data): the parser's record of an entry of the upload;
\* fail: the archive writer raises, with the file of the entry created or
\* not; the handler removes the file if it is there and raises again
write_archive(id, data, fail) ==
    /\ stagingExists
    /\ IF fail
       THEN /\ stagingArchive' = [k \in DOMAIN stagingArchive \ {id} |-> stagingArchive[k]]
            /\ result' = [op |-> "write_archive", outcome |-> "Exception", calc_id |-> id]
       ELSE /\ stagingArchive' = (id :> data) @@ stagingArchive
            /\ result' = [op |-> "write_archive", outcome |-> "ok"]
    /\ UNCHANGED <<tmpDirs, repackVars, pc, closedZips, prefix_size, stagingExists, rawTree, frozen, userMetadata,
                   publicVars, storeVars>>

\* user_metadata setter
set_user_metadata(data) ==
    /\ stagingExists
    /\ userMetadata' = data
    /\ result' = [op |-> "user_metadata", outcome |-> "ok"]
    /\ UNCHANGED <<tmpDirs, repackVars, pc, closedZips, prefix_size, stagingExists, rawTree, stagingArchive, frozen,
                   publicVars, storeVars>>

\* where an exception is raised inside _pack_archive_files or _pack_raw_files:
\* while the public / restricted archive file is written (e.g. a staging record
\* that cannot be read), while the public / restricted zip is written
PackFailures == {"none", "archive_public", "archive_restricted", "raw_public", "raw_restricted"}

\* _pack_archive_files with its try statement: the exception ends both writes;
\* the file being written is left without records
write_msgfiles(files, archive, entries, fail) ==
    IF fail = "archive_public"
    THEN [files EXCEPT !["public"] = Msg(EmptyMap)]
    ELSE IF fail = "archive_restricted"
    THEN [public |-> pack_archive_files(archive, entries).public,
          restricted |-> Msg(EmptyMap)]
    ELSE pack_archive_files(archive, entries)

\* _pack_raw_files with its try statement: both zips are created first; the
\* exception ends the writing, the zip being written is left without members
write_zipfiles(tree, entries, fail) ==
    IF fail = "raw_public"
    THEN [public |-> Zip({}), restricted |-> Zip({})]
    ELSE IF fail = "raw_restricted"
    THEN [public |-> pack_raw_files(tree, entries).public, restricted |-> Zip({})]
    ELSE pack_raw_files(tree, entries)

\* an exception was logged by pack
pack_logged(tree, entries, skip_raw, skip_archive, fail) ==
    \/ ~ skip_archive /\ fail \in {"archive_public", "archive_restricted"}
    \/ ~ skip_raw /\ fail \in {"raw_public", "raw_restricted"}
    \/ ~ skip_raw /\ collect_public_files(tree, entries, 1, {}).failed

pack_no_frozen_check(entries, skip_raw, skip_archive, fail) ==
    /\ stagingExists
    /\ frozen' = TRUE
    /\ publicExists' = TRUE
    /\ msgFile' = IF skip_archive THEN msgFile
                  ELSE write_msgfiles(msgFile, stagingArchive, entries, fail)
    /\ rawZip' = IF skip_raw THEN rawZip
                 ELSE write_zipfiles(rawTree, entries, fail)
    /\ lastPacked' = IF pack_logged(rawTree, entries, skip_raw, skip_archive, fail)
                     THEN NotPacked
                     ELSE IF skip_raw \/ skip_archive THEN lastPacked
                     ELSE PackedFrom(entries)
    /\ result' = [op |-> "pack", outcome |-> IF is_frozen THEN "AssertionError" ELSE "ok",
                  skip_raw |-> skip_raw, skip_archive |-> skip_archive, fail |-> fail,
                  entries |-> { entries[i] : i \in 1..Len(entries) }]
    /\ UNCHANGED <<tmpDirs, rawZipRepacked, msgFileRepacked, pc, closedZips, prefix_size, stagingExists,
                   rawTree, stagingArchive, userMetadata, sharedExists, storeVars>>

\* StagingUploadFiles.pack(entries, skip_raw, skip_archive), target_dir = None:
\* the assertion on .frozen comes before the first write; the exceptions of the
\* two partitions are logged and pack returns
pack(entries, skip_raw, skip_archive, fail) ==
    /\ stagingExists
    /\ IF is_frozen
       THEN /\ result' = [op |-> "pack", outcome |-> "AssertionError"]
            /\ UNCHANGED <<frozen, publicExists, rawZip, msgFile, lastPacked>>
       ELSE /\ frozen' = TRUE
            /\ publicExists' = TRUE
            /\ msgFile' = IF skip_archive THEN msgFile
                          ELSE write_msgfiles(msgFile, stagingArchive, entries, fail)
            /\ rawZip' = IF skip_raw THEN rawZip
                         ELSE write_zipfiles(rawTree, entries, fail)
            /\ lastPacked' = IF pack_logged(rawTree, entries, skip_raw, skip_archive, fail)
                             THEN NotPacked
                             ELSE IF skip_raw \/ skip_archive THEN lastPacked
                             ELSE PackedFrom(entries)
            /\ result' = [op |-> "pack", outcome |-> "ok", skip_raw |-> skip_raw,
                          skip_archive |-> skip_archive, fail |-> fail,
                          entries |-> { entries[i] : i \in 1..Len(entries) }]
    /\ UNCHANGED <<tmpDirs, rawZipRepacked, msgFileRepacked, pc, closedZips, prefix_size, stagingExists,
                   rawTree, stagingArchive, userMetadata, sharedExists, storeVars>>

\* StagingUploadFiles.delete(include_public): the staging tree, then _shared
delete(include_public) ==
    /\ stagingExists
    /\ stagingExists' = FALSE
    /\ rawTree' = {}
    /\ stagingArchive' = EmptyMap
    /\ frozen' = FALSE
    /\ userMetadata' = NoFile
    /\ IF include_public /\ prefix_size = 0 /\ publicExists
       THEN /\ publicExists' = FALSE
            /\ rawZip' = [a \in Access |-> NoZip]
            /\ msgFile' = [a \in Access |-> NoMsg]
            /\ rawZipRepacked' = [a \in Access |-> NoZip]
            /\ msgFileRepacked' = [a \in Access |-> NoMsg]
            /\ lastPacked' = NotPacked
            /\ sharedExists' = sharedExists
       ELSE IF include_public /\ prefix_size # 0 /\ sharedExists
       THEN /\ sharedExists' = FALSE
            /\ UNCHANGED <<publicExists, rawZip, msgFile, repackVars>>
       ELSE UNCHANGED <<sharedExists, publicExists, rawZip, msgFile, repackVars>>
    /\ result' = [op |-> "delete", outcome |-> "ok", include_public |-> include_public]
    /\ UNCHANGED <<tmpDirs, pc, closedZips, prefix_size, storeVars>>

UserMetadataValues == {"metadata"}

\* the files a parser has written an archive record for
ParsedFiles == { f \in RawFiles : basename(f) = Main }

Next ==
    \/ Create
    \/ \E file \in RawFiles :
          add_rawfiles(Source("file", { << basename(file) >> }, Outside),
                       path_string(dirname(file)), FALSE, "none")
    \/ \E file \in rawTree \cap ParsedFiles : write_archive(calc_id(file), Record, FALSE)
    \/ \E data \in UserMetadataValues : set_user_metadata(data)
    \/ \E entries \in (IF is_frozen THEN {<<>>} ELSE Entries(rawTree)),
          skip_raw \in (IF is_frozen THEN {FALSE} ELSE BOOLEAN),
          skip_archive \in (IF is_frozen THEN {FALSE} ELSE BOOLEAN) :
          pack(entries, skip_raw, skip_archive, "none")
    \/ \E include_public \in BOOLEAN : delete(include_public)

Spec == Init /\ [][Next]_vars

\* ---------------------------------------------- add_rawfiles and the temp root
\* a caller of create_tmp_dir(prefix) that keeps the directory: the place an
\* uploaded file is stored before add_rawfiles, or the extraction directory of
\* a call that is still running
create_tmp_dir_call(prefix) ==
    /\ LET tmp == create_tmp_dir(tmpDirs, prefix) IN
       /\ tmpDirs' = tmpDirs \cup tmp.created
       /\ result' = [op |-> "create_tmp_dir",
                     outcome |-> IF tmp.raised THEN "RuntimeError" ELSE "ok"]
    /\ UNCHANGED <<repackVars, pc, closedZips, prefix_size, stagingVars, publicVars, storeVars>>

\* the prefix of the directories callers store uploaded files in
SourcePrefix == "src"

\* what path can be: nothing, a regular file, a directory or an archive, outside
\* the temp root or in one of the callers' directories below it
AddSources(dirs) ==
    { Source(c[1], c[2], parent) :
        c \in { <<"missing", {}>>,
                <<"file", { << Main >> }>>,
                <<"dir", { <<A, Main>>, <<A, Aux>> }>>,
                <<"archive", { <<A, Main>>, <<A, Aux>> }>> },
        parent \in {Outside} \cup { d \in dirs : d[1] = SourcePrefix } }

\* target_dir: '', 'a', 'a/' and the malformed '..'
TargetDirs == { <<>>, << "a" >>, << "a", Sep >>, << Dot, Dot >> }

NextAdd ==
    \/ Create
    \/ \E prefix \in {upload_id, SourcePrefix} : create_tmp_dir_call(prefix)
    \/ \E source \in AddSources(tmpDirs), target_dir \in TargetDirs,
          cleanup_source_file_and_dir \in BOOLEAN :
          \E fail \in (IF source.kind = "archive" THEN AddFailures
                       ELSE AddFailures \ {"extract"}) :
             add_rawfiles(source, target_dir, cleanup_source_file_and_dir, fail)
    \/ pack(<<>>, FALSE, FALSE, "none")

SpecAdd == Init /\ [][NextAdd]_vars

\* -------------------------------------------------- add_rawfiles: the merge
\* sources with regular files, directories without files and symbolic links: a
\* single file, a single file that is a link, an archive and directories
MergeSources ==
    { SourceTree("file", { <<A>> }, {}, {}, Outside),
      SourceTree("file", {}, {}, { <<Main>> }, Outside),
      SourceTree("archive", { <<A, Main>>, <<A, Aux>> }, {}, {}, Outside),
      SourceTree("dir", {}, { <<A>> }, { <<B>> }, Outside),
      SourceTree("dir", { <<B>> }, {}, { <<A, Main>> }, Outside) }

\* target_dir: '', 'a', 'a/b'
MergeTargetDirs == { <<>>, << "a" >>, << "a", Sep, "b" >> }

NextMerge ==
    \/ Create
    \/ \E source \in MergeSources, target_dir \in MergeTargetDirs :
          add_rawfiles(source, target_dir, FALSE, "none")

SpecMerge == Init /\ [][NextMerge]_vars

\* ------------------------------------------------- public store: helpers
\* PublicUploadFiles._open_raw_file(access): the cached handle, or a new one;
\* found = FALSE is FileNotFoundError
open_raw_file(handles, access) ==
    IF access \in DOMAIN handles
    THEN [found |-> TRUE, handles |-> handles, names |-> handles[access]]
    ELSE IF ~ rawZip[access].exists
    THEN [found |-> FALSE, handles |-> handles, names |-> {}]
    ELSE [found |-> TRUE, handles |-> (access :> rawZip[access].names) @@ handles,
          names |-> rawZip[access].names]

\* PublicUploadFiles._open_msg_file(access)
open_msg_file(handles, access) ==
    IF access \in DOMAIN handles
    THEN [found |-> TRUE, handles |-> handles, records |-> handles[access]]
    ELSE IF ~ msgFile[access].exists
    THEN [found |-> FALSE, handles |-> handles, records |-> EmptyMap]
    ELSE [found |-> TRUE, handles |-> (access :> msgFile[access].records) @@ handles,
          records |-> msgFile[access].records]

\* zf.getinfo(path).file_size: one content per path
file_size(path) == Len(path) + Len(basename(path))

\* UploadPathInfo
PathInfo(path, is_file, size, access) ==
    [path |-> path, is_file |-> is_file, size |-> size, access |-> access]

\* _parse_content, the parent-directory loop of one zip member: the
\* (directory, child name) keys it sets; ''.split('/') is [''] for a member
\* at the zip root
directory_keys(path) ==
    LET directory_path == dirname(path) IN
    IF directory_path = <<>>
    THEN { <<<<>>, <<>>>> }
    ELSE { <<SubSeq(directory_path, 1, i - 1), directory_path[i]>> :
             i \in 1..Len(directory_path) }

\* os.path.join(sub_path, directory)
join(sub_path, name) == IF name = <<>> THEN sub_path ELSE Append(sub_path, name)

file_key(path) == <<dirname(path), basename(path)>>

\* _parse_content: the nested map as one map from (directory, child name) to
\* path info.  The public zip is read first: a directory keeps the access of
\* the first zip that names it, a file gets the access of the zip it is in.
parse_content(public_names, restricted_names) ==
    LET public_dirs == UNION { directory_keys(p) : p \in public_names }
        restricted_dirs == UNION { directory_keys(p) : p \in restricted_names }
        public_files == { file_key(p) : p \in public_names }
        restricted_files_keys == { file_key(p) : p \in restricted_names }
    IN  [ k \in public_dirs \cup restricted_dirs \cup public_files \cup restricted_files_keys |->
            IF k \in restricted_files_keys
            THEN PathInfo(join(k[1], k[2]), TRUE, file_size(join(k[1], k[2])), "restricted")
            ELSE IF k \in public_files
            THEN PathInfo(join(k[1], k[2]), TRUE, file_size(join(k[1], k[2])), "public")
            ELSE IF k \in public_dirs
            THEN PathInfo(join(k[1], k[2]), FALSE, 0, "public")
            ELSE PathInfo(join(k[1], k[2]), FALSE, 0, "restricted") ]

\* the store after self._parse_content(): the cache is built once, from both zips
parsed ==
    IF directories.built
    THEN [directories |-> directories, handles |-> rawZipHandles]
    ELSE LET o1 == open_raw_file(rawZipHandles, "public")
             o2 == open_raw_file(o1.handles, "restricted")
         IN  [directories |-> [built |-> TRUE, map |-> parse_content(o1.names, o2.names)],
              handles |-> o2.handles]

\* self._directories.get(directory_path) is not None
directory_known(map, directory_path) == \E k \in DOMAIN map : k[1] = directory_path

visible_always(path_info, authorized) == TRUE

visible_as_in_last_call(path_info, authorized) ==
    \/ path_info.access = "public"
    \/ IF "authorized" \in DOMAIN result THEN result.authorized ELSE authorized

\* path_info.access == 'public' or self._is_authorized()
visible(path_info, authorized) == path_info.access = "public" \/ authorized

\* raw_directory_list over the cache: the set of the path infos it yields
RECURSIVE directory_list(_, _, _, _, _)
directory_list(map, path, recursive, files_only, authorized) ==
    UNION { (IF visible(map[k], authorized) /\ (~ files_only \/ map[k].is_file)
             THEN { map[k] } ELSE {})
            \cup
            (IF recursive /\ ~ map[k].is_file
             THEN directory_list(map, map[k].path, recursive, files_only, authorized)
             ELSE {})
          : k \in { kk \in DOMAIN map : kk[1] = path } }

\* sys.getrecursionlimit(), scaled: more frames than the deepest directory of
\* the trees of the model needs
RecursionLimit == 4

\* sorted(directory_content.items()): the child the loop visits next; the
\* empty name sorts before every other name
first_item(todo) ==
    IF \E k \in todo : k[2] = <<>>
    THEN CHOOSE k \in todo : k[2] = <<>>
    ELSE CHOOSE k \in todo : TRUE

no_walk == [yielded |-> <<>>, raised |-> FALSE]

\* raw_directory_list as the generator runs: the path infos in the order they
\* are yielded, and whether the recursion ends in RecursionError
RECURSIVE directory_walk(_, _, _, _, _, _)
RECURSIVE walk_items(_, _, _, _, _, _)
walk_items(map, todo, recursive, files_only, authorized, depth) ==
    IF todo = {} THEN no_walk
    ELSE LET k == first_item(todo)
             own == IF visible(map[k], authorized) /\ (~ files_only \/ map[k].is_file)
                    THEN << map[k] >> ELSE <<>>
             sub == IF recursive /\ ~ map[k].is_file
                    THEN directory_walk(map, map[k].path, recursive, files_only, authorized,
                                        depth + 1)
                    ELSE no_walk
         IN  IF sub.raised
             THEN [yielded |-> own \o sub.yielded, raised |-> TRUE]
             ELSE LET rest == walk_items(map, todo \ {k}, recursive, files_only, authorized,
                                         depth)
                  IN  [yielded |-> own \o sub.yielded \o rest.yielded, raised |-> rest.raised]

directory_walk(map, path, recursive, files_only, authorized, depth) ==
    IF depth > RecursionLimit
    THEN [yielded |-> <<>>, raised |-> TRUE]
    ELSE walk_items(map, { k \in DOMAIN map : k[1] = path }, recursive, files_only,
                    authorized, depth)

restricted_check_never(access, file_path, authorized) == FALSE

\* (access == 'restricted' or always_restricted(file_path)) and not self._is_authorized()
restricted_check(access, file_path, authorized) ==
    (access = "restricted" \/ always_restricted(file_path)) /\ ~ authorized

\* the loop of raw_file and raw_file_size over ['public', 'restricted']
lookup_raw_file(file_path, authorized) ==
    LET o1 == open_raw_file(rawZipHandles, "public") IN
    IF o1.found /\ file_path \in o1.names
    THEN [handles |-> o1.handles, access |-> "public",
          outcome |-> IF restricted_check("public", file_path, authorized)
                      THEN "Restricted" ELSE "ok"]
    ELSE LET o2 == open_raw_file(o1.handles, "restricted") IN
         IF o2.found /\ file_path \in o2.names
         THEN [handles |-> o2.handles, access |-> "restricted",
               outcome |-> IF restricted_check("restricted", file_path, authorized)
                           THEN "Restricted" ELSE "ok"]
         ELSE [handles |-> o2.handles, access |-> "none", outcome |-> "KeyError"]

\* ------------------------------------------------- public store: actions
\* zf.open(file_path) in raw_file: ZipFile.open raises ValueError on a closed
\* ZipFile before it looks the member up; raw_file does not catch it.  The
\* restricted zip is opened only when the public one does not hold the file.
zip_open_fails(file_path) ==
    LET o1 == open_raw_file(rawZipHandles, "public") IN
    \/ "public" \in closedZips
    \/ /\ ~ (o1.found /\ file_path \in o1.names)
       /\ "restricted" \in closedZips

\* PublicUploadFiles.raw_file(file_path)
raw_file(file_path, authorized) ==
    /\ publicExists
    /\ LET r == lookup_raw_file(file_path, authorized) IN
       IF zip_open_fails(file_path)
       THEN /\ rawZipHandles' = IF "public" \in closedZips THEN rawZipHandles
                                ELSE open_raw_file(rawZipHandles, "public").handles
            /\ result' = [op |-> "raw_file", path |-> file_path, authorized |-> authorized,
                          outcome |-> "ValueError", access |-> "none"]
       ELSE /\ rawZipHandles' = r.handles
            /\ result' = [op |-> "raw_file", path |-> file_path, authorized |-> authorized,
                          outcome |-> r.outcome, access |-> r.access]
    /\ UNCHANGED <<pc, closedZips, diskVars, directories, msgHandles>>

\* PublicUploadFiles.raw_file_size(file_path)
raw_file_size(file_path, authorized) ==
    /\ publicExists
    /\ LET r == lookup_raw_file(file_path, authorized) IN
       /\ rawZipHandles' = r.handles
       /\ result' = [op |-> "raw_file_size", path |-> file_path, authorized |-> authorized,
                     outcome |-> r.outcome, access |-> r.access,
                     size |-> IF r.outcome = "ok" THEN file_size(file_path) ELSE 0]
    /\ UNCHANGED <<pc, closedZips, diskVars, directories, msgHandles>>

\* PublicUploadFiles.raw_file_manifest(path_prefix): the paths it yields
raw_file_manifest(with_prefix, path_prefix, authorized) ==
    /\ publicExists
    /\ LET o1 == open_raw_file(rawZipHandles, "public")
           o2 == open_raw_file(o1.handles, "restricted")
       IN  /\ rawZipHandles' = o2.handles
           /\ result' = [op |-> "raw_file_manifest", authorized |-> authorized,
                         outcome |-> "ok",
                         paths |-> { p \in o1.names \cup o2.names :
                                       \/ ~ with_prefix
                                       \/ /\ Len(p) >= Len(path_prefix)
                                          /\ SubSeq(p, 1, Len(path_prefix)) = path_prefix }]
    /\ UNCHANGED <<pc, closedZips, diskVars, directories, msgHandles>>

\* PublicUploadFiles.read_archive(calc_id, access): accesses is the list searched
read_archive(id, accesses, authorized) ==
    /\ publicExists
    /\ LET o1 == open_msg_file(msgHandles, accesses[1])
           hit1 == o1.found /\ id \in DOMAIN o1.records
           o2 == IF Len(accesses) > 1 THEN open_msg_file(o1.handles, accesses[2])
                 ELSE [found |-> FALSE, handles |-> o1.handles, records |-> EmptyMap]
           hit2 == o2.found /\ id \in DOMAIN o2.records
           access == IF hit1 THEN accesses[1] ELSE IF hit2 THEN accesses[2] ELSE "none"
       IN  /\ msgHandles' = IF hit1 THEN o1.handles ELSE o2.handles
           /\ result' = [op |-> "read_archive", calc_id |-> id, authorized |-> authorized,
                         accesses |-> accesses, access |-> access,
                         outcome |-> IF access = "none" THEN "KeyError"
                                     ELSE IF access = "restricted" /\ ~ authorized
                                     THEN "Restricted" ELSE "ok"]
    /\ UNCHANGED <<pc, closedZips, diskVars, directories, rawZipHandles>>

\* PublicUploadFiles.raw_path_exists(path); explicit: the path ends with '/'
raw_path_exists(path, explicit, authorized) ==
    /\ publicExists
    /\ LET c == parsed
           map == c.directories.map
           base_name == basename(path)
           directory_path == dirname(path)
           k == <<directory_path, base_name>>
       IN  /\ directories' = c.directories
           /\ rawZipHandles' = c.handles
           /\ result' = [op |-> "raw_path_exists", path |-> path, authorized |-> authorized,
                         outcome |-> "ok",
                         value |->
                            IF ~ directory_known(map, directory_path) THEN FALSE
                            ELSE IF base_name = <<>> THEN TRUE
                            ELSE IF k \in DOMAIN map /\ visible(map[k], authorized)
                            THEN ~ (explicit /\ map[k].is_file)
                            ELSE FALSE]
    /\ UNCHANGED <<pc, closedZips, diskVars, msgHandles>>

\* PublicUploadFiles.raw_path_is_file(path), path without trailing '/'
raw_path_is_file(path, authorized) ==
    /\ publicExists
    /\ LET c == parsed
           map == c.directories.map
           base_name == basename(path)
           directory_path == dirname(path)
           k == <<directory_path, base_name>>
       IN  /\ directories' = c.directories
           /\ rawZipHandles' = c.handles
           /\ result' = [op |-> "raw_path_is_file", path |-> path, authorized |-> authorized,
                         outcome |-> "ok",
                         value |->
                            IF base_name = <<>> THEN FALSE
                            ELSE IF k \in DOMAIN map /\ visible(map[k], authorized)
                            THEN map[k].is_file
                            ELSE FALSE]
    /\ UNCHANGED <<pc, closedZips, diskVars, msgHandles>>

\* PublicUploadFiles.raw_directory_list(path, recursive, files_only)
raw_directory_list(path, recursive, files_only, authorized) ==
    /\ publicExists
    /\ LET c == parsed IN
       /\ directories' = c.directories
       /\ rawZipHandles' = c.handles
       /\ LET walk == directory_walk(c.directories.map, path, recursive, files_only,
                                     authorized, 1)
          IN  result' = [op |-> "raw_directory_list", path |-> path, authorized |-> authorized,
                         outcome |-> IF walk.raised THEN "RecursionError" ELSE "ok",
                         yielded |-> walk.yielded,
                         infos |-> { walk.yielded[i] : i \in 1..Len(walk.yielded) }]
    /\ UNCHANGED <<pc, closedZips, diskVars, msgHandles>>

\* the raw tree of the published upload the store is opened on
PublishedTree == { <<A, Main>>, <<A, Potcar>>, <<B, Main>> }

\* the raw-path arguments of the read operations: its files and directories
Directories == { <<>>, <<A>>, <<B>> }
RawPaths == PublishedTree \cup Directories

\* the access argument of read_archive: None, 'public' or 'restricted'
AccessLists == { <<"public", "restricted">>, <<"public">>, <<"restricted">> }

\* a public upload published before the name rule: the files always_restricted
\* names lie in the public zip when their directory has a public entry
legacy_raw_files(tree, entries) ==
    LET z == pack_raw_files(tree, entries)
        moved == { f \in z.restricted.names :
                     /\ always_restricted(f)
                     /\ \E i \in 1..Len(entries) :
                           /\ ~ entries[i].with_embargo
                           /\ dirname(entries[i].mainfile) = dirname(f)
                     /\ \A i \in 1..Len(entries) :
                           entries[i].with_embargo => entries[i].mainfile # f }
    IN  [public |-> Zip(z.public.names \cup moved),
         restricted |-> Zip(z.restricted.names \ moved)]

\* a published upload (its staging tree is gone) and a new PublicUploadFiles on it
InitRead ==
    /\ prefix_size = 2
    /\ stagingExists = FALSE
    /\ rawTree = {}
    /\ stagingArchive = EmptyMap
    /\ frozen = FALSE
    /\ userMetadata = NoFile
    /\ sharedExists = FALSE
    /\ publicExists = TRUE
    /\ \E entries \in Entries(PublishedTree), legacy \in BOOLEAN :
          /\ rawZip = IF legacy THEN legacy_raw_files(PublishedTree, entries)
                      ELSE pack_raw_files(PublishedTree, entries)
          /\ msgFile = pack_archive_files(
                          [id \in { calc_id(f) : f \in ParsedFiles } |-> Record], entries)
    /\ tmpDirs = {}
    /\ closedZips = {}
    /\ pc = Idle
    /\ rawZipRepacked = [a \in Access |-> NoZip]
    /\ msgFileRepacked = [a \in Access |-> NoMsg]
    /\ lastPacked = NotPacked
    /\ directories = NoDirectories
    /\ rawZipHandles = EmptyMap
    /\ msgHandles = EmptyMap
    /\ result = [op |-> "none"]

NextRead ==
    \/ \E path \in RawPaths, authorized \in BOOLEAN : raw_file(path, authorized)
    \/ \E path \in RawPaths, authorized \in BOOLEAN : raw_file_size(path, authorized)
    \/ \E with_prefix \in BOOLEAN, authorized \in BOOLEAN :
          raw_file_manifest(with_prefix, <<A>>, authorized)
    \/ \E id \in { calc_id(f) : f \in PublishedTree }, accesses \in AccessLists, authorized \in BOOLEAN :
          read_archive(id, accesses, authorized)
    \/ \E path \in RawPaths, explicit \in BOOLEAN, authorized \in BOOLEAN :
          raw_path_exists(path, explicit, authorized)
    \/ \E path \in RawPaths, authorized \in BOOLEAN : raw_path_is_file(path, authorized)
    \/ \E path \in Directories, recursive \in BOOLEAN, files_only \in BOOLEAN,
          authorized \in BOOLEAN :
          raw_directory_list(path, recursive, files_only, authorized)

SpecRead == InitRead /\ [][NextRead]_vars

\* ------------------------------------------------- public store: close
close_forgets_handles ==
    /\ publicExists
    /\ rawZipHandles' = EmptyMap
    /\ closedZips' = {}
    /\ msgHandles' = EmptyMap
    /\ result' = [op |-> "close", outcome |-> "ok"]
    /\ UNCHANGED <<pc, diskVars, directories>>

\* PublicUploadFiles.close: every cached zip handle and archive reader is
\* closed; the dictionaries keep them.  _open_raw_file returns a cached handle
\* as it is; _open_msg_file replaces a reader that reports itself closed, so a
\* closed reader is as good as none.
close ==
    /\ publicExists
    /\ closedZips' = DOMAIN rawZipHandles
    /\ msgHandles' = EmptyMap
    /\ result' = [op |-> "close", outcome |-> "ok"]
    /\ UNCHANGED <<pc, diskVars, directories, rawZipHandles>>

NextClose ==
    \/ \E path \in RawPaths, authorized \in BOOLEAN : raw_file(path, authorized)
    \/ \E path \in RawPaths, authorized \in BOOLEAN : raw_file_size(path, authorized)
    \/ \E id \in { calc_id(f) : f \in PublishedTree }, accesses \in AccessLists, authorized \in BOOLEAN :
          read_archive(id, accesses, authorized)
    \/ close

SpecClose == InitRead /\ [][NextClose]_vars

\* -------------------------------------------- public store: to-staging, re_pack
\* the failures of the environment inside to_staging_upload_files and re_pack:
\* none; the first extraction raises; write_archive of the public resp. the
\* restricted repacked archive raises and leaves a file without records; writing
\* into the restricted repacked zip raises; the last shutil.move raises
RepackFailures == {"none", "seed", "archive_public", "archive_restricted", "raw", "move"}

\* PublicUploadFilesBasedStagingUploadFiles.extract(include_archive) on the new
\* staging store: both zips go through add_rawfiles, the records of both archive
\* files through write_archive; a missing archive file is FileNotFoundError.
\* closed: the archive readers the with statement has closed
extract(include_archive, fail) ==
    LET public_names == IF rawZip["public"].exists THEN rawZip["public"].names ELSE {}
        restricted_names == IF rawZip["restricted"].exists
                            THEN rawZip["restricted"].names ELSE {}
        o1 == open_msg_file(msgHandles, "public")
        o2 == open_msg_file(msgHandles, "restricted")
    IN  IF fail = "seed"
        THEN [outcome |-> "OSError", tree |-> {}, archive |-> EmptyMap, closed |-> {}]
        ELSE IF include_archive /\ ~ o1.found
        THEN [outcome |-> "FileNotFoundError", tree |-> merge({}, <<>>, public_names),
              archive |-> EmptyMap, closed |-> {}]
        ELSE IF include_archive /\ ~ o2.found
        THEN [outcome |-> "FileNotFoundError",
              tree |-> merge(merge({}, <<>>, public_names), <<>>, restricted_names),
              archive |-> o1.records, closed |-> {"public"}]
        ELSE [outcome |-> "ok",
              tree |-> merge(merge({}, <<>>, public_names), <<>>, restricted_names),
              archive |-> IF include_archive THEN o2.records @@ o1.records ELSE EmptyMap,
              closed |-> IF include_archive THEN Access ELSE {}]

\* dict without the keys of a set
without(map, keys) == [k \in DOMAIN map \ keys |-> map[k]]

to_staging_upload_files_seeds_again(create, include_archive, fail) ==
    /\ publicExists
    /\ IF ~ create
       THEN /\ result' = [op |-> "to_staging_upload_files", create |-> create,
                          outcome |-> IF stagingExists THEN "ok" ELSE "None"]
            /\ UNCHANGED <<stagingVars, sharedExists, msgHandles>>
       ELSE LET seeded == extract(include_archive, fail) IN
            /\ stagingExists' = TRUE
            /\ rawTree' = seeded.tree
            /\ stagingArchive' = seeded.archive
            /\ frozen' = FALSE
            /\ userMetadata' = NoFile
            /\ sharedExists' = IF prefix_size = 0 THEN sharedExists ELSE TRUE
            /\ msgHandles' = without(msgHandles, seeded.closed)
            /\ result' = [op |-> "to_staging_upload_files", create |-> create,
                          outcome |-> IF stagingExists THEN "FileExistsError"
                                      ELSE seeded.outcome]
    /\ UNCHANGED <<pc, closedZips, prefix_size, tmpDirs, repackVars, publicExists, rawZip, msgFile,
                   directories, rawZipHandles>>

\* PublicUploadFiles.to_staging_upload_files(create, include_archive)
to_staging_upload_files(create, include_archive, fail) ==
    /\ publicExists
    /\ IF stagingExists
       THEN /\ result' = [op |-> "to_staging_upload_files", create |-> create,
                          outcome |-> IF create THEN "FileExistsError" ELSE "ok"]
            /\ UNCHANGED <<stagingVars, sharedExists, msgHandles>>
       ELSE IF ~ create
       THEN /\ result' = [op |-> "to_staging_upload_files", create |-> create,
                          outcome |-> "None"]
            /\ UNCHANGED <<stagingVars, sharedExists, msgHandles>>
       ELSE LET seeded == extract(include_archive, fail) IN
            /\ stagingExists' = TRUE
            /\ rawTree' = seeded.tree
            /\ stagingArchive' = seeded.archive
            /\ frozen' = FALSE
            /\ userMetadata' = NoFile
            /\ sharedExists' = IF prefix_size = 0 THEN sharedExists ELSE TRUE
            /\ msgHandles' = without(msgHandles, seeded.closed)
            /\ result' = [op |-> "to_staging_upload_files", create |-> create,
                          outcome |-> seeded.outcome]
    /\ UNCHANGED <<pc, closedZips, prefix_size, tmpDirs, repackVars, publicExists, rawZip, msgFile,
                   directories, rawZipHandles>>

\* PublicUploadFiles.add_metadata_file(metadata): nomad.json is appended to the
\* public zip (mode 'a' creates the zip when it is not there)
NomadJson == <<"nomad", ".json">>

add_metadata_file ==
    /\ publicExists
    /\ rawZip' = [rawZip EXCEPT !["public"] = Zip(rawZip["public"].names \cup { << NomadJson >> })]
    /\ result' = [op |-> "add_metadata_file", outcome |-> "ok"]
    /\ UNCHANGED <<pc, closedZips, prefix_size, tmpDirs, repackVars, stagingVars, sharedExists, publicExists,
                   msgFile, storeVars>>

\* PublicUploadFiles.__init__: a new store object on the public upload
open_store ==
    /\ publicExists
    /\ directories' = NoDirectories
    /\ rawZipHandles' = EmptyMap
    /\ closedZips' = {}
    /\ msgHandles' = EmptyMap
    /\ result' = [op |-> "open", outcome |-> "ok"]
    /\ UNCHANGED <<pc, diskVars>>

repack_files_none(skip_raw, skip_archive) == << >>

\* re_pack: the (repacked file, live file) pairs in the order of the list files
repack_files(skip_raw, skip_archive) ==
    SelectSeq(<< <<"msg", "public">>, <<"raw", "public">>,
                 <<"msg", "restricted">>, <<"raw", "restricted">> >>,
              LAMBDA f : (f[1] = "msg" /\ ~ skip_archive) \/ (f[1] = "raw" /\ ~ skip_raw))

repacked_exists_never(skip_raw, skip_archive) == FALSE

\* re_pack: the existence check on the repacked files
repacked_exists(skip_raw, skip_archive) ==
    \E i \in 1..Len(repack_files(skip_raw, skip_archive)) :
        LET f == repack_files(skip_raw, skip_archive)[i] IN
        IF f[1] = "msg" THEN msgFileRepacked[f[2]].exists ELSE rawZipRepacked[f[2]].exists

\* re_pack after the checks, for the seeded staging store: the repacked files
\* _pack_archive_files and _pack_raw_files leave (their exceptions are logged
\* and swallowed), staging_upload.delete() in the finally clause, and the loop
\* of shutil.move, which ends at the first repacked file that is not there
repack(seeded, entries, skip_raw, skip_archive, fail) ==
    LET archives == pack_archive_files(seeded.archive, entries)
        msg_written ==
            IF skip_archive THEN msgFileRepacked
            ELSE IF fail = "archive_public"
            THEN [msgFileRepacked EXCEPT !["public"] = Msg(EmptyMap)]
            ELSE IF fail = "archive_restricted"
            THEN [public |-> archives.public, restricted |-> Msg(EmptyMap)]
            ELSE archives
        zips == pack_raw_files(seeded.tree, entries)
        raw_written ==
            IF skip_raw THEN rawZipRepacked
            ELSE IF fail = "raw"
            THEN [public |-> zips.public, restricted |-> Zip({})]
            ELSE zips
        \* staging_upload.delete(): _shared is the public directory when prefix_size = 0
        public_deleted == prefix_size = 0
        msg_repacked == IF public_deleted THEN [a \in Access |-> NoMsg] ELSE msg_written
        raw_repacked == IF public_deleted THEN [a \in Access |-> NoZip] ELSE raw_written
        msg_live == IF public_deleted THEN [a \in Access |-> NoMsg] ELSE msgFile
        raw_live == IF public_deleted THEN [a \in Access |-> NoZip] ELSE rawZip
        files == repack_files(skip_raw, skip_archive)
        there(f) == IF f[1] = "msg" THEN msg_repacked[f[2]].exists
                    ELSE raw_repacked[f[2]].exists
        can_move(k) == /\ \A i \in 1..k : there(files[i])
                       /\ (fail = "move" /\ Len(files) > 0 => k < Len(files))
        moves == CHOOSE k \in 0..Len(files) :
                    can_move(k) /\ \A j \in 0..Len(files) : can_move(j) => j <= k
        moved(f) == \E i \in 1..moves : files[i] = f
        swallowed == \/ ~ skip_archive /\ fail \in {"archive_public", "archive_restricted"}
                     \/ ~ skip_raw /\ fail = "raw"
                     \/ ~ skip_raw /\ collect_public_files(seeded.tree, entries, 1, {}).failed
    IN  [public_exists |-> ~ public_deleted,
         msg_live |-> [a \in Access |-> IF moved(<<"msg", a>>) THEN msg_repacked[a]
                                        ELSE msg_live[a]],
         raw_live |-> [a \in Access |-> IF moved(<<"raw", a>>) THEN raw_repacked[a]
                                        ELSE raw_live[a]],
         msg_repacked |-> [a \in Access |-> IF moved(<<"msg", a>>) THEN NoMsg
                                            ELSE msg_repacked[a]],
         raw_repacked |-> [a \in Access |-> IF moved(<<"raw", a>>) THEN NoZip
                                            ELSE raw_repacked[a]],
         outcome |-> IF moves = Len(files) THEN "ok"
                     ELSE IF there(files[moves + 1]) THEN "OSError"
                     ELSE "FileNotFoundError",
         swallowed |-> swallowed]

\* PublicUploadFiles.re_pack(entries, skip_raw, skip_archive)
re_pack(entries, skip_raw, skip_archive, fail) ==
    /\ publicExists
    /\ LET call == [op |-> "re_pack", fail |-> fail,
                    skip_raw |-> skip_raw, skip_archive |-> skip_archive,
                    entries |-> { entries[i] : i \in 1..Len(entries) }]
           seeded == extract(TRUE, fail)
           r == repack(seeded, entries, skip_raw, skip_archive, fail)
       IN  IF repacked_exists(skip_raw, skip_archive) \/ stagingExists
           THEN \* 'Repacked files already exist' / 'Staging upload does already exist'
                /\ result' = [call EXCEPT !.fail = "none"] @@ [outcome |-> "FileExistsError"]
                /\ UNCHANGED <<stagingVars, publicVars, repackVars, msgHandles>>
           ELSE IF seeded.outcome # "ok"
           THEN \* to_staging_upload_files raises before the try statement
                /\ stagingExists' = TRUE
                /\ rawTree' = seeded.tree
                /\ stagingArchive' = seeded.archive
                /\ frozen' = FALSE
                /\ userMetadata' = NoFile
                /\ sharedExists' = IF prefix_size = 0 THEN sharedExists ELSE TRUE
                /\ msgHandles' = without(msgHandles, seeded.closed)
                /\ result' = call @@ [outcome |-> seeded.outcome]
                /\ UNCHANGED <<publicExists, rawZip, msgFile, repackVars>>
           ELSE /\ msgHandles' = without(msgHandles, seeded.closed)
                /\ publicExists' = r.public_exists
                /\ msgFile' = r.msg_live
                /\ rawZip' = r.raw_live
                /\ msgFileRepacked' = r.msg_repacked
                /\ rawZipRepacked' = r.raw_repacked
                /\ lastPacked' =
                      IF r.outcome = "ok" /\ ~ r.swallowed /\ ~ skip_raw /\ ~ skip_archive
                      THEN RepackedFrom(entries)
                      ELSE IF skip_raw /\ skip_archive /\ r.public_exists THEN lastPacked
                      ELSE NotPacked
                /\ result' = call @@ [outcome |-> r.outcome]
                \* the staging store and the _shared directory it created are deleted
                /\ UNCHANGED <<stagingVars, sharedExists>>
    /\ UNCHANGED <<pc, closedZips, prefix_size, tmpDirs, directories, rawZipHandles>>

\* the raw tree of the published upload that is re-packed, and its entry
\* metadata with any embargo flags: both files are mainfiles
RepackTree == { <<A, Main>>, <<A, Potcar>> }

RepackEntries ==
    { s \in Entries(RepackTree) :
        Len(s) = 2 /\ s[1].mainfile = <<A, Main>> /\ s[2].mainfile = <<A, Potcar>> }

\* the calls of re_pack: any skip flags when nothing fails; when nothing is
\* skipped, every failure of the environment, which hits an upload whose live
\* files are as a complete pack or re_pack has left them
RepackCalls ==
    { <<c[1], c[2], "none">> : c \in BOOLEAN \X BOOLEAN }
    \cup { <<FALSE, FALSE, fail>> : fail \in { f \in RepackFailures : lastPacked.known } }

\* a public upload as pack has left it, its staging tree deleted, and a new
\* PublicUploadFiles on it
InitRepack ==
    /\ prefix_size \in PrefixSizes
    /\ stagingExists = FALSE
    /\ rawTree = {}
    /\ stagingArchive = EmptyMap
    /\ frozen = FALSE
    /\ userMetadata = NoFile
    /\ sharedExists = FALSE
    /\ publicExists = TRUE
    /\ \E entries \in RepackEntries :
          /\ rawZip = pack_raw_files(RepackTree, entries)
          /\ msgFile = pack_archive_files(
                          [id \in { calc_id(f) : f \in ParsedFiles } |-> Record], entries)
          /\ lastPacked = PackedFrom(entries)
    /\ tmpDirs = {}
    /\ closedZips = {}
    /\ pc = Idle
    /\ rawZipRepacked = [a \in Access |-> NoZip]
    /\ msgFileRepacked = [a \in Access |-> NoMsg]
    /\ directories = NoDirectories
    /\ rawZipHandles = EmptyMap
    /\ msgHandles = EmptyMap
    /\ result = [op |-> "none"]

NextRepack ==
    \/ \E entries \in RepackEntries, call \in RepackCalls :
          re_pack(entries, call[1], call[2], call[3])
    \/ delete(TRUE)
    \/ add_metadata_file

SpecRepack == InitRepack /\ [][NextRepack]_vars

\* re_pack without failure and the reads of store objects opened on the upload
NextRepackRead ==
    \/ \E entries \in RepackEntries : re_pack(entries, FALSE, FALSE, "none")
    \/ open_store
    \/ \E path \in RepackTree : raw_file(path, FALSE)
    \/ \E id \in { calc_id(f) : f \in RepackTree } :
          read_archive(id, <<"public", "restricted">>, FALSE)

SpecRepackRead == InitRepack /\ [][NextRepackRead]_vars

\* to-staging on a public upload, edits of the staging store, and its delete
NextToStaging ==
    \/ \E create \in BOOLEAN, include_archive \in BOOLEAN, fail \in {"none", "seed"} :
          to_staging_upload_files(create, include_archive, fail)
    \/ \E file \in rawTree \cap ParsedFiles : write_archive(calc_id(file), Record, FALSE)
    \/ \E include_public \in BOOLEAN : delete(include_public)
    \/ add_metadata_file

SpecToStaging == InitRepack /\ [][NextToStaging]_vars

\* directory listings of store objects opened on a public upload that has
\* nomad.json at the root of its public zip or not
NextList ==
    \/ add_metadata_file
    \/ open_store
    \/ \E path \in { <<>>, <<A>> }, recursive \in BOOLEAN, files_only \in BOOLEAN,
          authorized \in BOOLEAN :
          raw_directory_list(path, recursive, files_only, authorized)

SpecList == InitRepack /\ [][NextList]_vars

public_based_pack_with_raw(entries, skip_raw, skip_archive, fail) ==
    /\ stagingExists
    /\ IF is_frozen
       THEN /\ result' = [op |-> "pack", target |-> "public_upload_files",
                          outcome |-> "AssertionError"]
            /\ UNCHANGED <<frozen, rawZip, msgFile, lastPacked>>
       ELSE /\ frozen' = TRUE
            /\ msgFile' = write_msgfiles(msgFile, stagingArchive, entries, fail)
            /\ rawZip' = IF skip_raw THEN rawZip ELSE write_zipfiles(rawTree, entries, fail)
            /\ lastPacked' = IF pack_logged(rawTree, entries, skip_raw, FALSE, fail)
                             THEN NotPacked ELSE lastPacked
            /\ result' = [op |-> "pack", target |-> "public_upload_files", outcome |-> "ok",
                          fail |-> fail, entries |-> { entries[i] : i \in 1..Len(entries) }]
    /\ UNCHANGED <<tmpDirs, rawZipRepacked, msgFileRepacked, pc, closedZips, prefix_size, stagingExists,
                   rawTree, stagingArchive, userMetadata, sharedExists, publicExists, storeVars>>

\* PublicUploadFilesBasedStagingUploadFiles.pack(entries, *args, **kwargs):
\* StagingUploadFiles.pack(entries, target_dir=self.public_upload_files,
\* skip_raw=True); the skip flags of the caller are dropped.  The object is
\* the one to_staging_upload_files returns, over a public upload that exists.
public_based_pack(entries, skip_raw, skip_archive, fail) ==
    /\ stagingExists
    /\ IF is_frozen
       THEN /\ result' = [op |-> "pack", target |-> "public_upload_files",
                          outcome |-> "AssertionError"]
            /\ UNCHANGED <<frozen, rawZip, msgFile, lastPacked>>
       ELSE /\ frozen' = TRUE
            /\ IF ~ publicExists
               THEN /\ result' = [op |-> "pack", target |-> "public_upload_files",
                                  outcome |-> "AssertionError"]
                    /\ UNCHANGED <<rawZip, msgFile, lastPacked>>
               ELSE /\ msgFile' = write_msgfiles(msgFile, stagingArchive, entries, fail)
                    /\ rawZip' = rawZip
                    /\ lastPacked' = IF pack_logged(rawTree, entries, TRUE, FALSE, fail)
                                     THEN NotPacked ELSE lastPacked
                    /\ result' = [op |-> "pack", target |-> "public_upload_files",
                                  outcome |-> "ok", fail |-> fail,
                                  entries |-> { entries[i] : i \in 1..Len(entries) }]
    /\ UNCHANGED <<tmpDirs, rawZipRepacked, msgFileRepacked, pc, closedZips, prefix_size, stagingExists,
                   rawTree, stagingArchive, userMetadata, sharedExists, publicExists, storeVars>>

\* to-staging on a public upload and pack on the staging store it returns
NextBasedPack ==
    \/ \E create \in BOOLEAN, include_archive \in BOOLEAN :
          to_staging_upload_files(create, include_archive, "none")
    \/ \E entries \in RepackEntries, skip_raw \in BOOLEAN, skip_archive \in BOOLEAN,
          fail \in {"none", "archive_public", "archive_restricted"} :
          public_based_pack(entries, skip_raw, skip_archive, fail)
    \/ \E file \in rawTree \cap ParsedFiles : write_archive(calc_id(file), EmptyRecord, FALSE)
    \/ delete(FALSE)

SpecBasedPack == InitRepack /\ [][NextBasedPack]_vars

\* UploadFiles.get(upload_id) as a call: it creates nothing and leaves the
\* store objects that exist alone
get_call ==
    /\ result' = [op |-> "get", store |-> get]
    /\ UNCHANGED <<pc, closedZips, diskVars, storeVars>>

\* get next to to-staging (the temporary staging copy of re_pack is created by
\* the same to_staging_upload_files(create=True)) and the deletes
NextGet ==
    \/ get_call
    \/ \E create \in BOOLEAN, include_archive \in BOOLEAN :
          to_staging_upload_files(create, include_archive, "none")
    \/ \E include_public \in BOOLEAN : delete(include_public)
    \/ add_metadata_file

SpecGet == InitRepack /\ [][NextGet]_vars

\* ------------------------------------------------- pack with failures
\* a staging store with three raw files; a/main and b/main are parsed
PackTree == { << A, Main >>, << A, Aux >>, << B, Main >> }

\* entry metadata for the mainfiles of the tree and for one that is not there
PackEntries ==
    { s \in UNION { [1..n -> EntryRecords({ << A, Main >>, << B, Main >>, << B, Aux >> })] :
                      n \in 0..MaxEntries } :
        \A i, j \in 1..Len(s) : i # j => s[i].mainfile # s[j].mainfile }

InitPack ==
    /\ prefix_size \in PrefixSizes
    /\ stagingExists = TRUE
    /\ rawTree = PackTree
    /\ stagingArchive = EmptyMap
    /\ frozen = FALSE
    /\ userMetadata = NoFile
    /\ sharedExists = (prefix_size # 0)
    /\ publicExists = (prefix_size = 0)
    /\ rawZip = [a \in Access |-> NoZip]
    /\ msgFile = [a \in Access |-> NoMsg]
    /\ tmpDirs = {}
    /\ closedZips = {}
    /\ pc = Idle
    /\ rawZipRepacked = [a \in Access |-> NoZip]
    /\ msgFileRepacked = [a \in Access |-> NoMsg]
    /\ lastPacked = NotPacked
    /\ directories = NoDirectories
    /\ rawZipHandles = EmptyMap
    /\ msgHandles = EmptyMap
    /\ result = [op |-> "none"]

NextPack ==
    \/ \E file \in rawTree \cap ParsedFiles : write_archive(calc_id(file), Record, FALSE)
    \/ \E entries \in PackEntries, skip_raw \in BOOLEAN, skip_archive \in BOOLEAN,
          fail \in PackFailures :
          pack(entries, skip_raw, skip_archive, fail)

SpecPack == InitPack /\ [][NextPack]_vars

\* ------------------------------------- public store: concurrent readers
\* the threads that call directory-view operations on one store object
Threads == {1, 2}

DirectoryViews == {"raw_path_exists", "raw_path_is_file", "raw_directory_list"}

\* _parse_content, the body of the loop over the accesses for one zip: parent
\* directories are added unless the name is there, files are set
parse_zip(map, access, names) ==
    LET dirs == UNION { directory_keys(p) : p \in names }
        files == { file_key(p) : p \in names }
    IN  [ k \in DOMAIN map \cup dirs \cup files |->
            IF k \in files
            THEN PathInfo(join(k[1], k[2]), TRUE, file_size(join(k[1], k[2])), access)
            ELSE IF k \in DOMAIN map THEN map[k]
            ELSE PathInfo(join(k[1], k[2]), FALSE, 0, access) ]

\* what a directory-view operation returns for a path without trailing '/',
\* computed from self._directories
directory_view(op, map, path, authorized) ==
    LET k == << dirname(path), basename(path) >> IN
    IF op = "raw_path_exists"
    THEN IF ~ directory_known(map, dirname(path)) THEN {FALSE}
         ELSE IF basename(path) = << >> THEN {TRUE}
         ELSE IF k \in DOMAIN map /\ visible(map[k], authorized) THEN {TRUE}
         ELSE {FALSE}
    ELSE IF op = "raw_path_is_file"
    THEN IF basename(path) = << >> THEN {FALSE}
         ELSE IF k \in DOMAIN map /\ visible(map[k], authorized)
         THEN {map[k].is_file}
         ELSE {FALSE}
    ELSE directory_list(map, path, FALSE, FALSE, authorized)

\* a thread enters a directory-view operation and _parse_content, and tests
\* self._directories is None
view_call(t, op, path) ==
    /\ publicExists
    /\ t \notin DOMAIN pc
    /\ pc' = (t :> [at |-> IF directories.built THEN "answer" ELSE "init",
                    op |-> op, path |-> path]) @@ pc
    /\ UNCHANGED <<closedZips, diskVars, storeVars, result>>

\* self._directories = dict()
view_init(t) ==
    /\ t \in DOMAIN pc
    /\ pc[t].at = "init"
    /\ directories' = [built |-> TRUE, map |-> EmptyMap]
    /\ pc' = [pc EXCEPT ![t].at = "public"]
    /\ UNCHANGED <<closedZips, diskVars, rawZipHandles, msgHandles, result>>

\* one round of the loop over ['public', 'restricted']
view_parse(t) ==
    /\ t \in DOMAIN pc
    /\ pc[t].at \in Access
    /\ LET o == open_raw_file(rawZipHandles, pc[t].at) IN
       /\ rawZipHandles' = o.handles
       /\ directories' = IF o.found
                         THEN [directories EXCEPT !.map = parse_zip(@, pc[t].at, o.names)]
                         ELSE directories
    /\ pc' = [pc EXCEPT ![t].at = IF @ = "public" THEN "restricted" ELSE "answer"]
    /\ UNCHANGED <<closedZips, diskVars, msgHandles, result>>

\* the rest of the operation: the answer from self._directories as it is now
view_answer(t) ==
    /\ t \in DOMAIN pc
    /\ pc[t].at = "answer"
    /\ result' = [op |-> pc[t].op, thread |-> t, path |-> pc[t].path, authorized |-> TRUE,
                  outcome |-> "ok",
                  value |-> directory_view(pc[t].op, directories.map, pc[t].path, TRUE)]
    /\ pc' = [u \in DOMAIN pc \ {t} |-> pc[u]]
    /\ UNCHANGED <<closedZips, diskVars, storeVars>>

\* the paths the threads ask for
ViewPaths == { << A >>, << A, Main >>, << A, Potcar >> }

NextThreads ==
    \/ \E t \in Threads, op \in DirectoryViews, path \in ViewPaths : view_call(t, op, path)
    \/ \E t \in Threads : view_init(t)
    \/ \E t \in Threads : view_parse(t)
    \/ \E t \in Threads : view_answer(t)

SpecThreads == InitRepack /\ [][NextThreads]_vars

\* ---------------------------------------------- pack, output by output
\* pack(entries) without skip flags and without failures, as the sequence of its
\* writes.  pc["pack"] holds the position, the entries, the zips that are
\* created but not closed (open) and those whose members are written (written).
PackSteps == << "archive_public", "archive_restricted", "create_public", "create_restricted",
                "write_public", "write_restricted", "close_restricted", "close_public",
                "return" >>

\* the position after the one given
next_step(at) ==
    PackSteps[(CHOOSE i \in 1..Len(PackSteps) : PackSteps[i] = at) + 1]

\* the assertion, the .frozen file and the target directory
pack_freeze(entries) ==
    /\ stagingExists
    /\ "pack" \notin DOMAIN pc
    /\ IF is_frozen
       THEN /\ result' = [op |-> "pack", outcome |-> "AssertionError"]
            /\ UNCHANGED <<frozen, publicExists, pc>>
       ELSE /\ frozen' = TRUE
            /\ publicExists' = TRUE
            /\ pc' = ("pack" :> [at |-> "archive_public", entries |-> entries,
                                 open |-> {}, written |-> {}]) @@ pc
            /\ UNCHANGED result
    /\ UNCHANGED <<tmpDirs, repackVars, closedZips, prefix_size, stagingExists, rawTree, stagingArchive,
                   userMetadata, sharedExists, rawZip, msgFile, storeVars>>

\* _pack_archive_files: write_msgfile('public', ...), write_msgfile('restricted', ...)
pack_write_msgfile ==
    /\ "pack" \in DOMAIN pc
    /\ pc["pack"].at \in {"archive_public", "archive_restricted"}
    /\ LET access == IF pc["pack"].at = "archive_public" THEN "public" ELSE "restricted" IN
       msgFile' = [msgFile EXCEPT ![access] =
                      pack_archive_files(stagingArchive, pc["pack"].entries)[access]]
    /\ pc' = [pc EXCEPT !["pack"].at = next_step(@)]
    /\ UNCHANGED <<tmpDirs, repackVars, closedZips, prefix_size, stagingVars, sharedExists, publicExists,
                   rawZip, storeVars, result>>

\* _pack_raw_files: create_zipfile('public'), create_zipfile('restricted')
pack_create_zipfile ==
    /\ "pack" \in DOMAIN pc
    /\ pc["pack"].at \in {"create_public", "create_restricted"}
    /\ LET access == IF pc["pack"].at = "create_public" THEN "public" ELSE "restricted" IN
       /\ rawZip' = [rawZip EXCEPT ![access] = Zip({})]
       /\ pc' = [pc EXCEPT !["pack"].at = next_step(@),
                           !["pack"].open = @ \cup {access}]
    /\ UNCHANGED <<tmpDirs, repackVars, closedZips, prefix_size, stagingVars, sharedExists, publicExists,
                   msgFile, storeVars, result>>

\* _pack_raw_files 1.3 and 2: the members of the public, then of the restricted zip
pack_write_zip ==
    /\ "pack" \in DOMAIN pc
    /\ pc["pack"].at \in {"write_public", "write_restricted"}
    /\ LET access == IF pc["pack"].at = "write_public" THEN "public" ELSE "restricted" IN
       /\ rawZip' = [rawZip EXCEPT ![access] =
                        pack_raw_files(rawTree, pc["pack"].entries)[access]]
       /\ pc' = [pc EXCEPT !["pack"].at = next_step(@),
                           !["pack"].written = @ \cup {access}]
    /\ UNCHANGED <<tmpDirs, repackVars, closedZips, prefix_size, stagingVars, sharedExists, publicExists,
                   msgFile, storeVars, result>>

pack_close_zip_public_first ==
    /\ "pack" \in DOMAIN pc
    /\ pc["pack"].at \in {"close_restricted", "close_public"}
    /\ LET access == IF pc["pack"].at = "close_restricted" THEN "public" ELSE "restricted" IN
       pc' = [pc EXCEPT !["pack"].at = next_step(@),
                        !["pack"].open = @ \ {access}]
    /\ UNCHANGED <<closedZips, diskVars, storeVars, result>>

\* _pack_raw_files, finally: raw_restricted_zip.close(), raw_public_zip.close()
pack_close_zip ==
    /\ "pack" \in DOMAIN pc
    /\ pc["pack"].at \in {"close_restricted", "close_public"}
    /\ LET access == IF pc["pack"].at = "close_restricted" THEN "restricted" ELSE "public" IN
       pc' = [pc EXCEPT !["pack"].at = next_step(@),
                        !["pack"].open = @ \ {access}]
    /\ UNCHANGED <<closedZips, diskVars, storeVars, result>>

\* pack returns
pack_return ==
    /\ "pack" \in DOMAIN pc
    /\ pc["pack"].at = "return"
    /\ lastPacked' = PackedFrom(pc["pack"].entries)
    /\ result' = [op |-> "pack", outcome |-> "ok", skip_raw |-> FALSE,
                  skip_archive |-> FALSE, fail |-> "none",
                  entries |-> { pc["pack"].entries[i] : i \in 1..Len(pc["pack"].entries) }]
    /\ pc' = [u \in DOMAIN pc \ {"pack"} |-> pc[u]]
    /\ UNCHANGED <<tmpDirs, rawZipRepacked, msgFileRepacked, closedZips, prefix_size, stagingVars,
                   publicVars, storeVars>>

NextPackSteps ==
    \/ \E file \in rawTree \cap ParsedFiles :
          "pack" \notin DOMAIN pc /\ write_archive(calc_id(file), Record, FALSE)
    \/ \E entries \in Entries(rawTree) : pack_freeze(entries)
    \/ pack_write_msgfile
    \/ pack_create_zipfile
    \/ pack_write_zip
    \/ pack_close_zip
    \/ pack_return

SpecPackSteps == InitPack /\ [][NextPackSteps]_vars

\* ------------------------------------------------ pack, two callers
\* pack called by two threads (or processes) on the staging store of one
\* upload: the assertion reads .frozen, open(.., 'wt') writes it in a separate
\* step and succeeds whether or not the file exists
\* assert not self.is_frozen
pack_assert_not_frozen(t, entries) ==
    /\ stagingExists
    /\ t \notin DOMAIN pc
    /\ IF is_frozen
       THEN /\ result' = [op |-> "pack", outcome |-> "AssertionError", thread |-> t]
            /\ UNCHANGED pc
       ELSE /\ pc' = (t :> [at |-> "freeze", entries |-> entries]) @@ pc
            /\ UNCHANGED result
    /\ UNCHANGED <<closedZips, diskVars, storeVars>>

\* with open(self._frozen_file.os_path, 'wt') as f: f.write('frozen')
pack_write_frozen(t) ==
    /\ t \in DOMAIN pc
    /\ pc[t].at = "freeze"
    /\ frozen' = TRUE
    /\ pc' = [pc EXCEPT ![t].at = "target"]
    /\ UNCHANGED <<tmpDirs, repackVars, closedZips, prefix_size, stagingExists, rawTree,
                   stagingArchive, userMetadata, sharedExists, publicExists, rawZip, msgFile,
                   storeVars, result>>

\* the target directory and the public outputs of one caller
pack_outputs(t) ==
    /\ t \in DOMAIN pc
    /\ pc[t].at = "target"
    /\ publicExists' = TRUE
    /\ msgFile' = write_msgfiles(msgFile, stagingArchive, pc[t].entries, "none")
    /\ rawZip' = write_zipfiles(rawTree, pc[t].entries, "none")
    /\ lastPacked' = PackedFrom(pc[t].entries)
    /\ pc' = without(pc, {t})
    /\ result' = [op |-> "pack", outcome |-> "ok", thread |-> t,
                  entries |-> { pc[t].entries[i] : i \in 1..Len(pc[t].entries) }]
    /\ UNCHANGED <<tmpDirs, rawZipRepacked, msgFileRepacked, closedZips, prefix_size,
                   stagingExists, rawTree, stagingArchive, frozen, userMetadata,
                   sharedExists, storeVars>>

NextPackRace ==
    \/ \E t \in Threads, entries \in Entries(rawTree) : pack_assert_not_frozen(t, entries)
    \/ \E t \in Threads : pack_write_frozen(t)
    \/ \E t \in Threads : pack_outputs(t)

SpecPackRace == InitPack /\ [][NextPackRace]_vars

\* ------------------------------------------------ re_pack, two callers
\* re_pack(entries) called by two threads (or processes) on one public upload,
\* step by step; pc[t] = [at, entries, raising], at one of probe, create,
\* assert, seed, write, delete, move
\* the list files and the check for a running repack
re_pack_check(t, entries) ==
    /\ t \notin DOMAIN pc
    /\ IF repacked_exists(FALSE, FALSE)
       THEN /\ result' = [op |-> "re_pack", thread |-> t, outcome |-> "FileExistsError"]
            /\ UNCHANGED pc
       ELSE /\ pc' = (t :> [at |-> "probe", entries |-> entries, raising |-> FALSE]) @@ pc
            /\ UNCHANGED result
    /\ UNCHANGED <<closedZips, diskVars, storeVars>>

\* to_staging_upload_files(create=True): the staging store is opened without
\* create; when it exists the call ends in 'Staging upload does already exist'
re_pack_probe(t) ==
    /\ t \in DOMAIN pc
    /\ pc[t].at = "probe"
    /\ IF stagingExists
       THEN /\ result' = [op |-> "re_pack", thread |-> t, outcome |-> "FileExistsError"]
            /\ pc' = without(pc, {t})
       ELSE /\ pc' = [pc EXCEPT ![t].at = "create"]
            /\ UNCHANGED result
    /\ UNCHANGED <<closedZips, diskVars, storeVars>>

\* the staging store is opened with create=True: DirectoryObject makes the
\* directories that are not there, the staging one and _shared
re_pack_create(t) ==
    /\ t \in DOMAIN pc
    /\ pc[t].at = "create"
    /\ stagingExists' = TRUE
    /\ sharedExists' = IF prefix_size = 0 THEN sharedExists ELSE TRUE
    /\ publicExists' = IF prefix_size = 0 THEN TRUE ELSE publicExists
    /\ pc' = [pc EXCEPT ![t].at = "assert"]
    /\ UNCHANGED <<tmpDirs, repackVars, closedZips, prefix_size, rawTree, stagingArchive, frozen,
                   userMetadata, rawZip, msgFile, storeVars, result>>

\* extract: assert next(self.raw_file_manifest(), None) is None
re_pack_extract_assert(t) ==
    /\ t \in DOMAIN pc
    /\ pc[t].at = "assert"
    /\ IF rawTree # {}
       THEN /\ result' = [op |-> "re_pack", thread |-> t, outcome |-> "AssertionError"]
            /\ pc' = without(pc, {t})
       ELSE /\ pc' = [pc EXCEPT ![t].at = "seed"]
            /\ UNCHANGED result
    /\ UNCHANGED <<closedZips, diskVars, storeVars>>

\* extract(include_archive=True), per access: add_rawfiles of the zip that
\* exists (it makes the raw directory), then the records of the archive file
\* through write_archive, which fails when the archive directory is gone
seed_staging ==
    LET public_names == IF rawZip["public"].exists THEN rawZip["public"].names ELSE {}
        restricted_names == IF rawZip["restricted"].exists
                            THEN rawZip["restricted"].names ELSE {}
        o1 == open_msg_file(msgHandles, "public")
        o2 == open_msg_file(msgHandles, "restricted")
        tree1 == merge(rawTree, <<>>, public_names)
        tree2 == merge(tree1, <<>>, restricted_names)
        made1 == stagingExists \/ rawZip["public"].exists
        made2 == made1 \/ rawZip["restricted"].exists
    IN  IF ~ o1.found \/ (~ stagingExists /\ DOMAIN o1.records # {})
        THEN [outcome |-> "FileNotFoundError", exists |-> made1, tree |-> tree1,
              archive |-> stagingArchive, closed |-> IF o1.found THEN {"public"} ELSE {}]
        ELSE IF ~ o2.found \/ (~ stagingExists /\ DOMAIN o2.records # {})
        THEN [outcome |-> "FileNotFoundError", exists |-> made2, tree |-> tree2,
              archive |-> o1.records @@ stagingArchive,
              closed |-> IF o2.found THEN Access ELSE {"public"}]
        ELSE [outcome |-> "ok", exists |-> made2, tree |-> tree2,
              archive |-> o2.records @@ o1.records @@ stagingArchive, closed |-> Access]

re_pack_seed(t) ==
    /\ t \in DOMAIN pc
    /\ pc[t].at = "seed"
    /\ LET seeded == seed_staging IN
       /\ stagingExists' = seeded.exists
       /\ rawTree' = seeded.tree
       /\ stagingArchive' = seeded.archive
       /\ msgHandles' = without(msgHandles, seeded.closed)
       /\ IF seeded.outcome = "ok"
          THEN /\ pc' = [pc EXCEPT ![t].at = "write"]
               /\ UNCHANGED result
          ELSE /\ pc' = without(pc, {t})
               /\ result' = [op |-> "re_pack", thread |-> t, outcome |-> seeded.outcome]
    /\ UNCHANGED <<tmpDirs, repackVars, closedZips, prefix_size, frozen, userMetadata,
                   sharedExists, publicExists, rawZip, msgFile, directories, rawZipHandles>>

\* _pack_archive_files and _pack_raw_files into the repacked files; without the
\* public directory write_msgfile fails and is logged, create_zipfile raises
re_pack_write(t) ==
    /\ t \in DOMAIN pc
    /\ pc[t].at = "write"
    /\ IF publicExists
       THEN /\ msgFileRepacked' = pack_archive_files(stagingArchive, pc[t].entries)
            /\ rawZipRepacked' = pack_raw_files(rawTree, pc[t].entries)
            /\ pc' = [pc EXCEPT ![t].at = "delete"]
       ELSE /\ UNCHANGED <<msgFileRepacked, rawZipRepacked>>
            /\ pc' = [pc EXCEPT ![t].at = "delete", ![t].raising = TRUE]
    /\ UNCHANGED <<tmpDirs, lastPacked, closedZips, prefix_size, stagingVars, publicVars,
                   storeVars, result>>

\* finally: staging_upload.delete(); shutil.rmtree raises when the staging
\* directory is gone; _shared is the public directory when prefix_size = 0
re_pack_delete(t) ==
    /\ t \in DOMAIN pc
    /\ pc[t].at = "delete"
    /\ IF ~ stagingExists
       THEN /\ result' = [op |-> "re_pack", thread |-> t, outcome |-> "FileNotFoundError"]
            /\ pc' = without(pc, {t})
            /\ UNCHANGED <<stagingVars, publicVars, rawZipRepacked, msgFileRepacked>>
       ELSE /\ stagingExists' = FALSE
            /\ rawTree' = {}
            /\ stagingArchive' = EmptyMap
            /\ frozen' = FALSE
            /\ userMetadata' = NoFile
            /\ IF prefix_size = 0 /\ publicExists
               THEN /\ publicExists' = FALSE
                    /\ rawZip' = [a \in Access |-> NoZip]
                    /\ msgFile' = [a \in Access |-> NoMsg]
                    /\ rawZipRepacked' = [a \in Access |-> NoZip]
                    /\ msgFileRepacked' = [a \in Access |-> NoMsg]
                    /\ UNCHANGED sharedExists
               ELSE /\ sharedExists' = FALSE
                    /\ UNCHANGED <<publicExists, rawZip, msgFile, rawZipRepacked,
                                   msgFileRepacked>>
            /\ IF pc[t].raising
               THEN /\ result' = [op |-> "re_pack", thread |-> t,
                                  outcome |-> "FileNotFoundError"]
                    /\ pc' = without(pc, {t})
               ELSE /\ pc' = [pc EXCEPT ![t].at = "move"]
                    /\ UNCHANGED result
    /\ UNCHANGED <<tmpDirs, lastPacked, closedZips, prefix_size, storeVars>>

\* the loop of shutil.move over files, which ends at the first repacked file
\* that is not there
re_pack_move(t) ==
    /\ t \in DOMAIN pc
    /\ pc[t].at = "move"
    /\ LET files == repack_files(FALSE, FALSE)
           there(f) == IF f[1] = "msg" THEN msgFileRepacked[f[2]].exists
                       ELSE rawZipRepacked[f[2]].exists
           can_move(k) == \A i \in 1..k : there(files[i])
           moves == CHOOSE k \in 0..Len(files) :
                       can_move(k) /\ \A j \in 0..Len(files) : can_move(j) => j <= k
           moved(f) == \E i \in 1..moves : files[i] = f
       IN  /\ msgFile' = [a \in Access |-> IF moved(<<"msg", a>>) THEN msgFileRepacked[a]
                                           ELSE msgFile[a]]
           /\ rawZip' = [a \in Access |-> IF moved(<<"raw", a>>) THEN rawZipRepacked[a]
                                          ELSE rawZip[a]]
           /\ msgFileRepacked' = [a \in Access |-> IF moved(<<"msg", a>>) THEN NoMsg
                                                   ELSE msgFileRepacked[a]]
           /\ rawZipRepacked' = [a \in Access |-> IF moved(<<"raw", a>>) THEN NoZip
                                                  ELSE rawZipRepacked[a]]
           /\ lastPacked' = IF moves = Len(files) THEN RepackedFrom(pc[t].entries)
                            ELSE NotPacked
           /\ result' = [op |-> "re_pack", thread |-> t,
                         outcome |-> IF moves = Len(files) THEN "ok"
                                     ELSE "FileNotFoundError"]
    /\ pc' = without(pc, {t})
    /\ UNCHANGED <<tmpDirs, closedZips, prefix_size, stagingVars, sharedExists, publicExists,
                   storeVars>>

NextRepackRace ==
    \/ \E t \in Threads, entries \in RepackEntries : re_pack_check(t, entries)
    \/ \E t \in Threads : re_pack_probe(t)
    \/ \E t \in Threads : re_pack_create(t)
    \/ \E t \in Threads : re_pack_extract_assert(t)
    \/ \E t \in Threads : re_pack_seed(t)
    \/ \E t \in Threads : re_pack_write(t)
    \/ \E t \in Threads : re_pack_delete(t)
    \/ \E t \in Threads : re_pack_move(t)

SpecRepackRace == InitRepack /\ [][NextRepackRace]_vars

\* ------------------------------------------------ calc_files, calc_hash
\* the names of the model in the order of Python's string comparison
NameOrder == << Potcar, PotcarStripped, Aux, B, Main >>

Rank(name) == CHOOSE i \in 1..Len(NameOrder) : NameOrder[i] = name

\* sorted(aux_files) for paths of one directory
RECURSIVE sorted(_)
sorted(paths) ==
    IF paths = {} THEN << >>
    ELSE LET first == CHOOSE f \in paths :
                         \A g \in paths : Rank(basename(f)) <= Rank(basename(g))
         IN  << first >> \o sorted(paths \ {first})

\* os.listdir(calc_dir): the names below the directory in any order
Listings(tree, dir) ==
    LET names == { f[Len(dir) + 1] : f \in { g \in tree : IsPrefix(dir, g) /\ g # dir } }
    IN  { l \in [1..Cardinality(names) -> names] :
            \A i, j \in 1..Cardinality(names) : i # j => l[i] # l[j] }

\* calc_files: the loop over os.listdir(calc_dir) from position i on, with
\* the aux files collected so far (file_count is their number)
RECURSIVE collect_aux_files(_, _, _, _, _, _)
collect_aux_files(tree, mainfile, with_cutoff, listing, i, aux_files) ==
    IF i > Len(listing) THEN aux_files
    ELSE LET filename == listing[i]
             file == Append(dirname(mainfile), filename)
             appended == IF filename # basename(mainfile) /\ file \in tree
                         THEN aux_files \cup {file} ELSE aux_files
         IN  IF with_cutoff /\ Cardinality(appended) > auxfile_cutoff
             THEN appended
             ELSE collect_aux_files(tree, mainfile, with_cutoff, listing, i + 1, appended)

\* StagingUploadFiles.calc_files(mainfile, with_mainfile, with_cutoff) as a list,
\* for the order in which os.listdir returns the directory
calc_files_listed(tree, mainfile, with_mainfile, with_cutoff, listing) ==
    LET aux_files == sorted(collect_aux_files(tree, mainfile, with_cutoff, listing, 1, {}))
    IN  IF with_mainfile THEN << mainfile >> \o aux_files ELSE aux_files

\* the bytes of a raw file, in blocks: a stripped POTCAR is empty, every other
\* file holds one block of its own
content(file) == IF basename(file) = PotcarStripped THEN << >> ELSE << file >>

RECURSIVE update(_, _)
update(hash, files) ==
    IF files = << >> THEN hash
    ELSE update(hash \o content(Head(files)), Tail(files))

\* StagingUploadFiles.calc_hash(mainfile): sha512 over the bytes of the calc
\* files, one after the other (the digest stands for the bytes it was fed)
calc_hash(tree, mainfile, listing) ==
    update(<< >>, calc_files_listed(tree, mainfile, TRUE, TRUE, listing))

\* a call of calc_files
calc_files_call(mainfile, with_mainfile, with_cutoff, listing) ==
    /\ stagingExists
    /\ result' = IF ~ path_exists(rawTree, mainfile)
                 THEN [op |-> "calc_files", mainfile |-> mainfile,
                       with_mainfile |-> with_mainfile, with_cutoff |-> with_cutoff,
                       outcome |-> "KeyError", files |-> << >>]
                 ELSE [op |-> "calc_files", mainfile |-> mainfile,
                       with_mainfile |-> with_mainfile, with_cutoff |-> with_cutoff,
                       outcome |-> "ok",
                       files |-> calc_files_listed(rawTree, mainfile, with_mainfile,
                                                   with_cutoff, listing)]
    /\ UNCHANGED <<pc, closedZips, diskVars, storeVars>>

\* a call of calc_hash
calc_hash_call(mainfile, listing) ==
    /\ stagingExists
    /\ result' = IF ~ path_exists(rawTree, mainfile)
                 THEN [op |-> "calc_hash", mainfile |-> mainfile,
                       outcome |-> "KeyError", hash |-> << >>]
                 ELSE [op |-> "calc_hash", mainfile |-> mainfile,
                       outcome |-> "ok", hash |-> calc_hash(rawTree, mainfile, listing)]
    /\ UNCHANGED <<pc, closedZips, diskVars, storeVars>>

\* the files of the directory a/ of an upload, one of them in a subdirectory
CalcFiles == { f \in RawFiles : dirname(f) = << A >> } \cup { << A, B, Main >> }

\* the mainfiles asked for
CalcMainfiles == { << A, Main >>, << A, Aux >>, << A, B, Main >> }

NextCalc ==
    \/ Create
    \/ \E file \in CalcFiles :
          add_rawfiles(Source("file", { << basename(file) >> }, Outside),
                       path_string(dirname(file)), FALSE, "none")
    \/ \E mainfile \in CalcMainfiles, with_mainfile \in BOOLEAN, with_cutoff \in BOOLEAN :
          \E listing \in Listings(rawTree, dirname(mainfile)) :
             calc_files_call(mainfile, with_mainfile, with_cutoff, listing)
    \/ \E mainfile \in CalcMainfiles :
          \E listing \in Listings(rawTree, dirname(mainfile)) :
             calc_hash_call(mainfile, listing)

SpecCalc == Init /\ [][NextCalc]_vars

\* ------------------------------------------------- staging store: reads
\* os.path.exists / isdir / isfile of os.path.join(raw, s) for a well-formed s:
\* a trailing separator asks for a directory
os_path_isdir(tree, s) ==
    LET path == raw_path(rstrip(s)) IN
    path = <<>> \/ \E f \in tree : IsPrefix(path, f) /\ f # path

os_path_isfile(tree, s) ==
    raw_path(rstrip(s)) \in tree /\ (s = <<>> \/ s[Len(s)] # Sep)

os_path_exists(tree, s) == os_path_isdir(tree, s) \/ os_path_isfile(tree, s)

\* sorted(os.listdir(os_path)): the names below a directory of the raw tree
listdir(tree, path) ==
    { f[Len(path) + 1] : f \in { g \in tree : IsPrefix(path, g) /\ g # path } }

\* StagingUploadFiles.raw_directory_list below a directory: the path infos
RECURSIVE staging_directory_list(_, _, _, _)
staging_directory_list(tree, path, recursive, files_only) ==
    UNION { LET element == Append(path, name)
                is_file == element \in tree
            IN  (IF ~ files_only \/ is_file
                 THEN { PathInfo(element, is_file,
                                 IF is_file THEN file_size(element) ELSE -1, "unpublished") }
                 ELSE {})
                \cup
                (IF recursive /\ ~ is_file
                 THEN staging_directory_list(tree, element, recursive, files_only)
                 ELSE {})
          : name \in listdir(tree, path) }

\* StagingUploadFiles.raw_path_exists(path)
staging_raw_path_exists(s, authorized) ==
    /\ stagingExists
    /\ result' = [op |-> "raw_path_exists", store |-> "staging", raw |-> s,
                  authorized |-> authorized, outcome |-> "ok",
                  value |-> IF ~ raw_path_is_well_formed(s) THEN FALSE
                            ELSE os_path_exists(rawTree, s)]
    /\ UNCHANGED <<pc, closedZips, diskVars, storeVars>>

\* StagingUploadFiles.raw_path_is_file(path)
staging_raw_path_is_file(s, authorized) ==
    /\ stagingExists
    /\ result' = [op |-> "raw_path_is_file", store |-> "staging", raw |-> s,
                  authorized |-> authorized, outcome |-> "ok",
                  value |-> IF ~ raw_path_is_well_formed(s) THEN FALSE
                            ELSE os_path_isfile(rawTree, s)]
    /\ UNCHANGED <<pc, closedZips, diskVars, storeVars>>

\* StagingUploadFiles.raw_directory_list(path, recursive, files_only)
staging_raw_directory_list(s, recursive, files_only, authorized) ==
    /\ stagingExists
    /\ result' = [op |-> "raw_directory_list", store |-> "staging", raw |-> s,
                  authorized |-> authorized, outcome |-> "ok",
                  infos |-> IF ~ raw_path_is_well_formed(s) THEN {}
                            ELSE IF ~ os_path_isdir(rawTree, s) THEN {}
                            ELSE staging_directory_list(rawTree, raw_path(rstrip(s)),
                                                        recursive, files_only)]
    /\ UNCHANGED <<pc, closedZips, diskVars, storeVars>>

\* StagingUploadFiles.raw_file(file_path): the assertion, the access predicate,
\* then open, where FileNotFoundError and IsADirectoryError become KeyError
staging_raw_file(s, authorized) ==
    /\ stagingExists
    /\ result' = [op |-> "raw_file", store |-> "staging", raw |-> s,
                  authorized |-> authorized,
                  outcome |-> IF ~ raw_path_is_well_formed(s) THEN "AssertionError"
                              ELSE IF ~ authorized THEN "Restricted"
                              ELSE IF os_path_isfile(rawTree, s) THEN "ok"
                              ELSE "KeyError"]
    /\ UNCHANGED <<pc, closedZips, diskVars, storeVars>>

\* StagingUploadFiles.raw_file_size(file_path): os.stat of the path object
staging_raw_file_size(s, authorized) ==
    /\ stagingExists
    /\ LET outcome == IF ~ raw_path_is_well_formed(s) THEN "AssertionError"
                      ELSE IF ~ authorized THEN "Restricted"
                      ELSE IF os_path_exists(rawTree, s) THEN "ok"
                      ELSE "FileNotFoundError"
       IN  result' = [op |-> "raw_file_size", store |-> "staging", raw |-> s,
                      authorized |-> authorized, outcome |-> outcome,
                      size |-> IF outcome = "ok" /\ os_path_isfile(rawTree, s)
                               THEN file_size(raw_path(s)) ELSE 0]
    /\ UNCHANGED <<pc, closedZips, diskVars, storeVars>>

\* StagingUploadFiles.read_archive(calc_id)
staging_read_archive(id, authorized) ==
    /\ stagingExists
    /\ result' = [op |-> "read_archive", store |-> "staging", calc_id |-> id,
                  authorized |-> authorized,
                  outcome |-> IF ~ authorized THEN "Restricted"
                              ELSE IF id \in DOMAIN stagingArchive THEN "ok"
                              ELSE "KeyError"]
    /\ UNCHANGED <<pc, closedZips, diskVars, storeVars>>

\* ----------------------------------- public store: reads of a path string
\* PublicUploadFiles.raw_path_exists(path): the validation, then the lookup
public_raw_path_exists(s, authorized) ==
    IF raw_path_is_well_formed(s)
    THEN raw_path_exists(raw_path(rstrip(s)), s # <<>> /\ s[Len(s)] = Sep, authorized)
    ELSE /\ publicExists
         /\ result' = [op |-> "raw_path_exists", path |-> split(s),
                       authorized |-> authorized, outcome |-> "ok", value |-> FALSE]
         /\ UNCHANGED <<pc, closedZips, diskVars, storeVars>>

\* PublicUploadFiles.raw_path_is_file(path)
public_raw_path_is_file(s, authorized) ==
    IF raw_path_is_well_formed(s)
    THEN raw_path_is_file(raw_path(s), authorized)
    ELSE /\ publicExists
         /\ result' = [op |-> "raw_path_is_file", path |-> split(s),
                       authorized |-> authorized, outcome |-> "ok", value |-> FALSE]
         /\ UNCHANGED <<pc, closedZips, diskVars, storeVars>>

\* PublicUploadFiles.raw_directory_list(path, recursive, files_only)
public_raw_directory_list(s, recursive, files_only, authorized) ==
    IF raw_path_is_well_formed(s)
    THEN raw_directory_list(raw_path(rstrip(s)), recursive, files_only, authorized)
    ELSE /\ publicExists
         /\ result' = [op |-> "raw_directory_list", path |-> split(s),
                       authorized |-> authorized, outcome |-> "ok", infos |-> {}]
         /\ UNCHANGED <<pc, closedZips, diskVars, storeVars>>

\* PublicUploadFiles.raw_file(file_path) and raw_file_size(file_path): the member
\* of that very name is looked up, there is no validation
public_raw_file(s, authorized) == raw_file(split(s), authorized)

public_raw_file_size(s, authorized) == raw_file_size(split(s), authorized)

\* the raw path strings handed to the reads: '', directories with and without
\* trailing separator, files, a missing file, and malformed paths
ReadStrings ==
    { <<>>,
      path_string(<<A>>), path_string(<<A>>) \o << Sep >>,
      path_string(<<A, Main>>), path_string(<<A, Main>>) \o << Sep >>,
      path_string(<<B, Main>>), path_string(<<B, Aux>>),
      << Dot, Dot, Sep >> \o path_string(<<A, Main>>),
      << Sep >> \o path_string(<<A, Main>>),
      path_string(<<A>>) \o << Sep, Sep >> \o path_string(<<Main>>),
      path_string(<<A>>) \o << Sep, Dot, Sep >> \o path_string(<<Main>>) }

\* a staging store with raw files and the archive records of its parsed
\* mainfiles, not packed yet
InitStagingRead ==
    /\ prefix_size = 2
    /\ stagingExists = TRUE
    /\ rawTree = PublishedTree
    /\ stagingArchive = [id \in { calc_id(f) : f \in PublishedTree \cap ParsedFiles } |-> Record]
    /\ frozen = FALSE
    /\ userMetadata = NoFile
    /\ sharedExists = TRUE
    /\ publicExists = FALSE
    /\ rawZip = [a \in Access |-> NoZip]
    /\ msgFile = [a \in Access |-> NoMsg]
    /\ tmpDirs = {}
    /\ closedZips = {}
    /\ pc = Idle
    /\ rawZipRepacked = [a \in Access |-> NoZip]
    /\ msgFileRepacked = [a \in Access |-> NoMsg]
    /\ lastPacked = NotPacked
    /\ directories = NoDirectories
    /\ rawZipHandles = EmptyMap
    /\ msgHandles = EmptyMap
    /\ result = [op |-> "none"]

\* UploadFiles.get(upload_id): a staging store, or a public store as pack
\* leaves it
InitPaths ==
    \/ InitStagingRead
    \/ /\ InitRead
       /\ \E entries \in Entries(PublishedTree) : rawZip = pack_raw_files(PublishedTree, entries)

NextPaths ==
    \/ \E s \in ReadStrings, authorized \in BOOLEAN : staging_raw_path_exists(s, authorized)
    \/ \E s \in ReadStrings, authorized \in BOOLEAN : staging_raw_path_is_file(s, authorized)
    \/ \E s \in ReadStrings, recursive \in BOOLEAN, files_only \in BOOLEAN,
          authorized \in BOOLEAN :
          staging_raw_directory_list(s, recursive, files_only, authorized)
    \/ \E s \in ReadStrings, authorized \in BOOLEAN : staging_raw_file(s, authorized)
    \/ \E s \in ReadStrings, authorized \in BOOLEAN : staging_raw_file_size(s, authorized)
    \/ \E id \in { calc_id(f) : f \in PublishedTree }, authorized \in BOOLEAN :
          staging_read_archive(id, authorized)
    \/ \E s \in ReadStrings, authorized \in BOOLEAN : public_raw_path_exists(s, authorized)
    \/ \E s \in ReadStrings, authorized \in BOOLEAN : public_raw_path_is_file(s, authorized)
    \/ \E s \in ReadStrings, recursive \in BOOLEAN, files_only \in BOOLEAN,
          authorized \in BOOLEAN :
          public_raw_directory_list(s, recursive, files_only, authorized)
    \/ \E s \in ReadStrings, authorized \in BOOLEAN : public_raw_file(s, authorized)
    \/ \E s \in ReadStrings, authorized \in BOOLEAN : public_raw_file_size(s, authorized)

SpecPaths == InitPaths /\ [][NextPaths]_vars

\* ------------------------------------------ staging store: archive writes

\* writes of archive records that can fail, and the reads of the records
NextArchive ==
    \/ \E file \in PublishedTree, data \in {Record, EmptyRecord}, fail \in BOOLEAN :
          write_archive(calc_id(file), data, fail)
    \/ \E file \in PublishedTree, authorized \in BOOLEAN :
          staging_read_archive(calc_id(file), authorized)

SpecArchive == InitStagingRead /\ [][NextArchive]_vars

\* ------------------------------------------ api: raw file by upload path
PlotPng == <<"plot", ".png">>
PotcarPng == <<"POTCAR", ".png">>
Star == "*"

\* the raw files of the upload the endpoint is asked for
EndpointTree == { <<A, Main>>, <<A, PlotPng>>, <<A, PotcarPng>> }

\* the path parameter of the request: files, a file with a trailing
\* separator, a missing file, a malformed path and wildcards
RequestPaths ==
    { path_string(<<A, Main>>), path_string(<<A, PlotPng>>), path_string(<<A, PotcarPng>>),
      path_string(<<A, PlotPng>>) \o << Sep >>,
      path_string(<<A, Main>>) \o << Sep >>,
      path_string(<<B, PlotPng>>), path_string(<<B, Main>>),
      << Dot, Dot, Sep >> \o path_string(<<A, Main>>),
      path_string(<<A>>) \o << Sep, Star >>, path_string(<<B>>) \o << Sep, Star >> }

\* os.path.basename of a path string: what follows the last separator
string_basename(s) == split(s)[Len(split(s))]

authorization_predicate_of_the_user(s, authorized) == authorized

\* RawFileFromUploadPathResource.get: the predicate handed to UploadFiles.get;
\* authorized is what create_authorization_predicate(upload_id) returns for
\* the caller
authorization_predicate(s, authorized) ==
    IF endswith(string_basename(s), ".png") THEN TRUE ELSE authorized

\* raw_file of the store object UploadFiles.get has just made: its zips are
\* not open yet
new_store_raw_file(store, upload_filepath, is_authorized) ==
    IF store = "StagingUploadFiles"
    THEN IF ~ raw_path_is_well_formed(upload_filepath) THEN "AssertionError"
         ELSE IF ~ is_authorized THEN "Restricted"
         ELSE IF os_path_isfile(rawTree, upload_filepath) THEN "ok"
         ELSE "KeyError"
    ELSE LET file_path == split(upload_filepath)
             o1 == open_raw_file(EmptyMap, "public")
             o2 == open_raw_file(o1.handles, "restricted")
         IN  IF o1.found /\ file_path \in o1.names
             THEN IF restricted_check("public", file_path, is_authorized)
                  THEN "Restricted" ELSE "ok"
             ELSE IF o2.found /\ file_path \in o2.names
             THEN IF restricted_check("restricted", file_path, is_authorized)
                  THEN "Restricted" ELSE "ok"
             ELSE "KeyError"

\* raw_file_manifest(path_prefix) of either store
new_store_raw_file_manifest(store, path_prefix) ==
    { f \in (IF store = "StagingUploadFiles" THEN rawTree
             ELSE rawZip["public"].names \cup rawZip["restricted"].names) :
        IsPrefix(path_prefix, path_string(f)) }

\* get_raw_file_from_upload_path without offset, length and decompress: the
\* status of the response.  files.py has no raw_file_list and no
\* open_zipfile_cache: the directory answer and the zip answer end in
\* AttributeError.
get_raw_file_from_upload_path(store, s, is_authorized) ==
    LET upload_filepath == rstrip(s) IN
    IF upload_filepath # <<>> /\ upload_filepath[Len(upload_filepath)] = Star
    THEN [store_outcome |-> "manifest",
          status |-> IF new_store_raw_file_manifest(
                           store, SubSeq(upload_filepath, 1, Len(upload_filepath) - 1)) = {}
                     THEN 404 ELSE 500]
    ELSE LET outcome == new_store_raw_file(store, upload_filepath, is_authorized)
         IN  [store_outcome |-> outcome,
              status |-> IF outcome = "ok" THEN 200
                         ELSE IF outcome = "Restricted" THEN 401
                         ELSE 500]

\* RawFileFromUploadPathResource.get(upload_id, path)
RawFileFromUploadPathResource_get(s, authorized) ==
    /\ LET is_authorized == authorization_predicate(s, authorized)
           r == IF get = "None" THEN [store_outcome |-> "none", status |-> 404]
                ELSE get_raw_file_from_upload_path(get, s, is_authorized)
       IN  result' = [op |-> "RawFileFromUploadPathResource.get", raw |-> s,
                      authorized |-> authorized, is_authorized |-> is_authorized,
                      store |-> get, store_outcome |-> r.store_outcome, status |-> r.status]
    /\ UNCHANGED <<pc, closedZips, diskVars, storeVars>>

\* the upload in staging, published with and without embargo, or gone
InitEndpoint ==
    /\ prefix_size = 2
    /\ stagingArchive = EmptyMap
    /\ frozen = FALSE
    /\ userMetadata = NoFile
    /\ sharedExists = FALSE
    /\ \/ /\ stagingExists = TRUE
          /\ rawTree = EndpointTree
          /\ publicExists = FALSE
          /\ rawZip = [a \in Access |-> NoZip]
       \/ /\ stagingExists = FALSE
          /\ rawTree = {}
          /\ publicExists = TRUE
          /\ \E entries \in Entries(EndpointTree) : rawZip = pack_raw_files(EndpointTree, entries)
       \/ /\ stagingExists = FALSE
          /\ rawTree = {}
          /\ publicExists = FALSE
          /\ rawZip = [a \in Access |-> NoZip]
    /\ msgFile = [a \in Access |-> NoMsg]
    /\ tmpDirs = {}
    /\ closedZips = {}
    /\ pc = Idle
    /\ rawZipRepacked = [a \in Access |-> NoZip]
    /\ msgFileRepacked = [a \in Access |-> NoMsg]
    /\ lastPacked = NotPacked
    /\ directories = NoDirectories
    /\ rawZipHandles = EmptyMap
    /\ msgHandles = EmptyMap
    /\ result = [op |-> "none"]

NextEndpoint ==
    \E s \in RequestPaths, authorized \in BOOLEAN : RawFileFromUploadPathResource_get(s, authorized)

SpecEndpoint == InitEndpoint /\ [][NextEndpoint]_vars

\* ------------------------------------------- raw_path_is_well_formed alone
\* no upload on disk
NoUploadOnDisk ==
    /\ stagingExists = FALSE
    /\ rawTree = {}
    /\ stagingArchive = EmptyMap
    /\ frozen = FALSE
    /\ userMetadata = NoFile
    /\ sharedExists = FALSE
    /\ publicExists = FALSE
    /\ rawZip = [a \in Access |-> NoZip]
    /\ msgFile = [a \in Access |-> NoMsg]
    /\ tmpDirs = {}
    /\ closedZips = {}
    /\ pc = Idle
    /\ rawZipRepacked = [a \in Access |-> NoZip]
    /\ msgFileRepacked = [a \in Access |-> NoMsg]
    /\ lastPacked = NotPacked
    /\ directories = NoDirectories
    /\ rawZipHandles = EmptyMap
    /\ msgHandles = EmptyMap

\* the strings over a separator, a dot and one other chunk
PathChunks == { Sep, Dot, "a" }
PathStrings == UNION { [1..n -> PathChunks] : n \in 0..MaxPathLen }

InitWellFormed ==
    /\ prefix_size = 0
    /\ NoUploadOnDisk
    /\ \E s \in PathStrings : result = [op |-> "input", path |-> s]

\* one call of raw_path_is_well_formed on the input
well_formed_call ==
    /\ result.op = "input"
    /\ result' = [op |-> "raw_path_is_well_formed", path |-> result.path,
                  value |-> raw_path_is_well_formed(result.path)]
    /\ UNCHANGED <<pc, closedZips, diskVars, storeVars>>

NextWellFormed == well_formed_call

SpecWellFormed == InitWellFormed /\ [][NextWellFormed]_vars

\* ------------------------------------------------------------ properties
\* the name rule as the claims state it: the basename starts with 'POTCAR' and
\* does not end with '.stripped'
MatchesNameRule(path) ==
    /\ Len(path) > 0
    /\ path[Len(path)][1] = "POTCAR"
    /\ path[Len(path)][Len(path[Len(path)])] # ".stripped"

Denied == {"Restricted", "KeyError"}

PackedRaw == result.op = "pack" /\ result.outcome = "ok" /\ ~ result.skip_raw
PackedArchive == result.op = "pack" /\ result.outcome = "ok" /\ ~ result.skip_archive

\* C1: with the access predicate false, raw_file, raw_file_size and read_archive
\* on a public store end in Restricted or KeyError for every file of the
\* restricted zip and every entry of the restricted archive, whatever was read
\* (and cached) before.
C1_RestrictedNeverRead ==
    /\ (/\ result.op \in {"raw_file", "raw_file_size"}
        /\ ~ result.authorized
        /\ result.path \in rawZip["restricted"].names)
       => result.outcome \in Denied
    /\ (/\ result.op = "read_archive"
        /\ ~ result.authorized
        /\ result.calc_id \in DOMAIN msgFile["restricted"].records)
       => result.outcome \in Denied

\* C1 witness: an unauthorized raw_file of a file of the restricted zip ends in
\* Restricted on a store whose directory cache and zip handles are filled.
C1_Witness ==
    /\ result.op = "raw_file"
    /\ ~ result.authorized
    /\ result.path \in rawZip["restricted"].names
    /\ result.outcome = "Restricted"
    /\ directories.built
    /\ DOMAIN rawZipHandles = Access

\* C2: with the access predicate false, raw_directory_list yields no path info
\* with access 'restricted' and none of a file of the restricted zip, and
\* raw_path_exists and raw_path_is_file are false for every such file.
C2_RestrictedSuppressed ==
    /\ (result.op = "raw_directory_list" /\ ~ result.authorized)
       => \A info \in result.infos :
             /\ info.access # "restricted"
             /\ info.path \notin rawZip["restricted"].names
    /\ (/\ result.op \in {"raw_path_exists", "raw_path_is_file"}
        /\ ~ result.authorized
        /\ result.path \in rawZip["restricted"].names)
       => result.value = FALSE

\* C2 witness: an unauthorized listing of a directory that holds a file of the
\* restricted zip and a visible file yields the visible file only.
C2_Witness ==
    /\ result.op = "raw_directory_list"
    /\ ~ result.authorized
    /\ result.infos # {}
    /\ \E f \in rawZip["restricted"].names : dirname(f) = result.path

\* C3 (as claimed): with the access predicate false, raw_file_manifest yields no
\* path of a file of the restricted zip.
C3_ManifestHidesRestricted ==
    (result.op = "raw_file_manifest" /\ ~ result.authorized)
    => result.paths \cap rawZip["restricted"].names = {}

C5_EmbargoPreserved ==
    /\ PackedRaw =>
          \A e \in result.entries : e.with_embargo =>
              /\ e.mainfile \in rawZip["restricted"].names
              /\ e.mainfile \notin rawZip["public"].names
    /\ PackedArchive =>
          \A e \in result.entries : e.with_embargo =>
              /\ e.calc_id \in DOMAIN msgFile["restricted"].records
              /\ e.calc_id \notin DOMAIN msgFile["public"].records

\* C5 witness: a pack of an embargoed entry that shares its directory with an
\* entry without embargo.
C5_Witness ==
    /\ PackedRaw /\ PackedArchive
    /\ \E e1, e2 \in result.entries :
          /\ e1.with_embargo /\ ~ e2.with_embargo
          /\ dirname(e1.mainfile) = dirname(e2.mainfile)
          /\ e1.mainfile \in rawZip["restricted"].names
          /\ e2.mainfile \in rawZip["public"].names

\* C6: pack puts a raw file into the public zip iff it is the mainfile or a
\* same-directory sibling of the mainfile of an entry without embargo, is not
\* the mainfile of an embargoed entry and is not matched by the name rule;
\* every other file of the manifest goes to the restricted zip.
C6_FileGroupRule ==
    PackedRaw =>
        /\ \A f \in RawFiles :
              f \in rawZip["public"].names <=>
                 /\ f \in rawTree
                 /\ \E e \in result.entries :
                       ~ e.with_embargo /\ dirname(e.mainfile) = dirname(f)
                 /\ ~ \E e \in result.entries : e.with_embargo /\ e.mainfile = f
                 /\ ~ MatchesNameRule(f)
        /\ \A f \in rawTree :
              f \notin rawZip["public"].names => f \in rawZip["restricted"].names

\* C6 witness: an aux file of an embargoed entry is public because an entry
\* without embargo has its mainfile in the same directory.
C6_Witness ==
    /\ PackedRaw
    /\ \E e1, e2 \in result.entries, f \in rawZip["public"].names :
          /\ e1.with_embargo /\ ~ e2.with_embargo
          /\ dirname(e1.mainfile) = dirname(f) /\ dirname(e2.mainfile) = dirname(f)
          /\ f # e1.mainfile /\ f # e2.mainfile

\* C7: pack never writes a POTCAR* file that is not *.stripped to the public
\* zip, also as mainfile or aux file of an entry without embargo: it goes to the
\* restricted zip; a sibling POTCAR.stripped of an entry without embargo (not
\* itself the mainfile of an embargoed entry) goes to the public zip.
C7_PotcarRestricted ==
    PackedRaw =>
        \A f \in rawTree :
           /\ MatchesNameRule(f) =>
                 f \notin rawZip["public"].names /\ f \in rawZip["restricted"].names
           /\ (/\ basename(f) = PotcarStripped
               /\ \E e \in result.entries :
                     ~ e.with_embargo /\ dirname(e.mainfile) = dirname(f)
               /\ ~ \E e \in result.entries : e.with_embargo /\ e.mainfile = f)
              => f \in rawZip["public"].names

\* C7 witness: POTCAR is the mainfile of an entry without embargo and lands in
\* the restricted zip while its sibling POTCAR.stripped lands in the public zip.
C7_Witness ==
    /\ PackedRaw
    /\ \E e \in result.entries :
          /\ ~ e.with_embargo
          /\ e.mainfile = <<A, Potcar>>
    /\ <<A, Potcar>> \in rawZip["restricted"].names
    /\ <<A, PotcarStripped>> \in rawZip["public"].names

\* C8 (as claimed): with the access predicate false, a file the name rule
\* matches is treated as restricted by every read of a public store, also when
\* it lies in the public zip: raw_file and raw_file_size are denied, and
\* raw_directory_list, raw_path_exists and raw_path_is_file do not reveal it.
C8_NameRuleOnEveryRead ==
    /\ (/\ result.op \in {"raw_file", "raw_file_size"}
        /\ ~ result.authorized
        /\ MatchesNameRule(result.path))
       => result.outcome \in Denied
    /\ (result.op = "raw_directory_list" /\ ~ result.authorized)
       => \A info \in result.infos : ~ (info.is_file /\ MatchesNameRule(info.path))
    /\ (/\ result.op \in {"raw_path_exists", "raw_path_is_file"}
        /\ ~ result.authorized
        /\ MatchesNameRule(result.path))
       => result.value = FALSE

\* C9: once the staging store is frozen, every add_rawfiles fails, and as long
\* as the store is not deleted it stays frozen with the same raw tree.
C9_FrozenRejectsAdd ==
    [][ (stagingExists /\ frozen) =>
           /\ (result'.op = "add_rawfiles" => result'.outcome = "AssertionError")
           /\ (stagingExists' => (frozen' /\ rawTree' = rawTree)) ]_vars

\* C9 witness: an add_rawfiles call on a frozen store that failed.
C9_Witness ==
    /\ stagingExists /\ frozen
    /\ result.op = "add_rawfiles"
    /\ result.outcome = "AssertionError"

\* C10 (as claimed): once .frozen exists no staging mutation succeeds: the raw
\* tree, the archive records and the user metadata of the store stay as they are.
C10_FrozenRejectsAllMutation ==
    [][ (stagingExists /\ frozen /\ stagingExists') =>
           /\ rawTree' = rawTree
           /\ stagingArchive' = stagingArchive
           /\ userMetadata' = userMetadata ]_vars

\* C11: pack on a frozen staging store fails with the assertion and changes
\* nothing: no public directory is created, no archive file and no zip is
\* written or overwritten, and the staging store is as it was.
C11_FrozenPackFailsFirst ==
    [][ (stagingExists /\ frozen /\ result'.op = "pack") =>
           /\ result'.outcome = "AssertionError"
           /\ UNCHANGED <<stagingVars, publicVars, rawZipRepacked, msgFileRepacked, tmpDirs>> ]_vars

\* C11 witness: a pack that failed on a frozen store whose first pack skipped
\* the raw files: the zips the second pack would have written are not there.
C11_Witness ==
    /\ stagingExists /\ frozen
    /\ result.op = "pack"
    /\ result.outcome = "AssertionError"
    /\ ~ rawZip["public"].exists
    /\ msgFile["public"].exists

\* a maximal run s[i..j] without separator: a path element that is not empty
IsElement(s, i, j) ==
    /\ i <= j
    /\ \A k \in i..j : s[k] # "/"
    /\ (i = 1 \/ s[i - 1] = "/")
    /\ (j = Len(s) \/ s[j + 1] = "/")

\* C13: raw_path_is_well_formed(s) is true iff s is empty, or s does not start
\* with '/', does not contain '//' and has no element equal to '.' or '..'.
C13_WellFormedIff ==
    result.op = "raw_path_is_well_formed" =>
        LET s == result.path IN
        result.value <=>
            \/ s = <<>>
            \/ /\ s[1] # "/"
               /\ ~ \E i \in 1..(Len(s) - 1) : s[i] = "/" /\ s[i + 1] = "/"
               /\ \A i, j \in 1..Len(s) :
                     IsElement(s, i, j) =>
                        /\ SubSeq(s, i, j) # << "." >>
                        /\ SubSeq(s, i, j) # << ".", "." >>

\* C13 witness: a path with an inner element and a single trailing '/' is
\* accepted.
C13_Witness ==
    /\ result.op = "raw_path_is_well_formed"
    /\ result.value
    /\ Len(result.path) >= 4
    /\ result.path[Len(result.path)] = "/"
    /\ result.path[2] = "/"

\* C12 (as claimed): whatever way an add_rawfiles call ends, the set of
\* directories below the temp root after the call is the set before the call.
C12_TempRootUnchanged ==
    [][ result'.op = "add_rawfiles" => tmpDirs' = tmpDirs ]_vars

\* C12 (amended): whatever way an add_rawfiles call ends, the directory it
\* created for the extraction is gone, and the set of directories below the temp
\* root is the set before the call without the parent directory of the source
\* when cleanup_source_file_and_dir is set; without that flag it is the same set.
C12_TempDirsCleanedUp ==
    [][ result'.op = "add_rawfiles" =>
           /\ result'.created \cap tmpDirs' = {}
           /\ tmpDirs' = tmpDirs \ (IF result'.cleanup THEN {result'.parent} ELSE {}) ]_vars

\* C12 witness: an extraction that failed after its temp directory was created,
\* next to another directory of the same prefix that is still there.
C12_Witness ==
    /\ result.op = "add_rawfiles"
    /\ result.outcome = "ExtractError"
    /\ result.created = { <<upload_id, 2>> }
    /\ <<upload_id, 1>> \in tmpDirs
    /\ <<upload_id, 2>> \notin tmpDirs

\* the outcome of a read that stands for "not found"
NotFoundOutcome ==
    CASE result.op \in {"raw_file", "raw_file_size"} -> result.outcome = "KeyError"
      [] result.op \in {"raw_path_exists", "raw_path_is_file"} ->
            result.outcome = "ok" /\ result.value = FALSE
      [] result.op = "raw_directory_list" -> result.outcome = "ok" /\ result.infos = {}
      [] OTHER -> FALSE

\* the string of the last read: as given to a staging store, joined again from
\* its elements for a public store
ReadString == IF "raw" \in DOMAIN result THEN result.raw ELSE path_string(result.path)

\* a string that breaks one of the rules of a raw path
Malformed(s) ==
    /\ s # <<>>
    /\ \/ s[1] = "/"
       \/ \E i \in 1..(Len(s) - 1) : s[i] = "/" /\ s[i + 1] = "/"
       \/ \E i, j \in 1..Len(s) :
             IsElement(s, i, j) /\ SubSeq(s, i, j) \in { << "." >>, << ".", "." >> }

ReadsOfRawPath ==
    {"raw_file", "raw_file_size", "raw_path_exists", "raw_path_is_file", "raw_directory_list"}

\* C14 (as claimed): raw_file, raw_file_size, raw_path_exists, raw_path_is_file
\* and raw_directory_list of a staging store and of a public store answer a
\* malformed path with the not-found outcome: KeyError, false, or an empty
\* listing.
C14_MalformedIsNotFound ==
    (result.op \in ReadsOfRawPath /\ Malformed(ReadString)) => NotFoundOutcome

\* C15 (as claimed): every read of a staging store whose access predicate is
\* false fails with Restricted.
C15_StagingReadsRestricted ==
    (/\ "store" \in DOMAIN result
     /\ result.store = "staging"
     /\ ~ result.authorized)
    => result.outcome = "Restricted"

\* C16: re_pack is rejected with FileExistsError whenever a repacked file it
\* would write exists, and then nothing has changed: no staging store is
\* created, the live and the repacked files are as before.
C16_RepackRejected ==
    [][ (/\ result'.op = "re_pack"
         /\ \/ ~ result'.skip_archive /\ \E a \in Access : msgFileRepacked[a].exists
            \/ ~ result'.skip_raw /\ \E a \in Access : rawZipRepacked[a].exists)
        => /\ result'.outcome = "FileExistsError"
           /\ UNCHANGED <<stagingVars, publicVars, rawZipRepacked, msgFileRepacked, tmpDirs>> ]_vars

\* C16 witness: a rejected re_pack on an upload with a repacked file left
\* behind and no staging store.
C16_Witness ==
    /\ result.op = "re_pack"
    /\ result.outcome = "FileExistsError"
    /\ ~ stagingExists
    /\ \E a \in Access : rawZipRepacked[a].exists \/ msgFileRepacked[a].exists

\* C17 (as claimed): after a re_pack in which a step failed (seeding, writing a
\* repacked archive or zip, moving a file) no staging store exists and the live
\* raw zips and archive files are the ones from before the call.
C17_RepackFailsAtomically ==
    [][ (/\ result'.op = "re_pack"
         /\ result'.outcome # "FileExistsError"
         /\ (result'.outcome # "ok" \/ result'.fail # "none"))
        => /\ ~ stagingExists'
           /\ rawZip' = rawZip
           /\ msgFile' = msgFile ]_vars

\* C18 (as claimed): a re_pack with the entries and embargo flags the live files
\* were packed from leaves both raw zips and both archive files as they are,
\* also after add_metadata_file.
C18_RepackIdempotent ==
    [][ (/\ result'.op = "re_pack"
         /\ result'.outcome = "ok"
         /\ result'.fail = "none"
         /\ ~ result'.skip_raw /\ ~ result'.skip_archive
         /\ lastPacked.known
         /\ result'.entries = lastPacked.entries)
        => /\ rawZip' = rawZip
           /\ msgFile' = msgFile ]_vars

\* the entries without embargo of the last complete re_pack
Lifted == { e \in lastPacked.entries : lastPacked.by = "re_pack" /\ ~ e.with_embargo }

\* the last call is a read, with the access predicate false, of a store object
\* that had not opened the file before
FreshRawFile ==
    /\ rawZipHandles = EmptyMap
    /\ result'.op = "raw_file" /\ ~ result'.authorized

FreshReadArchive ==
    /\ msgHandles = EmptyMap
    /\ result'.op = "read_archive" /\ ~ result'.authorized

\* C19 (as claimed): after a complete re_pack every entry without embargo has
\* its mainfile in the public zip and its record in the public archive, a new
\* store with the access predicate false reads both, and without an embargoed
\* entry the restricted archive holds no records.
C19_RepackLiftsEmbargo ==
    [][ /\ \A e \in Lifted :
              /\ e.mainfile \in rawZip["public"].names
              /\ e.calc_id \in DOMAIN msgFile["public"].records
              /\ (FreshRawFile /\ result'.path = e.mainfile) => result'.outcome = "ok"
              /\ (FreshReadArchive /\ result'.calc_id = e.calc_id) => result'.outcome = "ok"
        /\ (lastPacked.by = "re_pack" /\ \A e \in lastPacked.entries : ~ e.with_embargo)
              => DOMAIN msgFile["restricted"].records = {} ]_vars

\* C19 (amended): as C19 for the archive records; the mainfile of an entry
\* without embargo is in the public zip and readable with the access predicate
\* false unless its name is POTCAR* and not *.stripped: then it is in the
\* restricted zip and raw_file ends in Restricted.
C19_RepackLiftsEmbargoButNameRule ==
    [][ /\ \A e \in Lifted :
              /\ e.calc_id \in DOMAIN msgFile["public"].records
              /\ (FreshReadArchive /\ result'.calc_id = e.calc_id) => result'.outcome = "ok"
              /\ IF MatchesNameRule(e.mainfile)
                 THEN /\ e.mainfile \in rawZip["restricted"].names
                      /\ e.mainfile \notin rawZip["public"].names
                      /\ (FreshRawFile /\ result'.path = e.mainfile)
                            => result'.outcome = "Restricted"
                 ELSE /\ e.mainfile \in rawZip["public"].names
                      /\ (FreshRawFile /\ result'.path = e.mainfile)
                            => result'.outcome = "ok"
        /\ (lastPacked.by = "re_pack" /\ \A e \in lastPacked.entries : ~ e.with_embargo)
              => DOMAIN msgFile["restricted"].records = {} ]_vars

\* C19 witness: after a complete re_pack without any embargoed entry a new store
\* with the access predicate false has read the mainfile a/main from the public
\* zip and the restricted archive is empty.
C19_Witness ==
    /\ lastPacked.by = "re_pack"
    /\ \A e \in lastPacked.entries : ~ e.with_embargo
    /\ result.op = "raw_file" /\ ~ result.authorized
    /\ result.path = <<A, Main>>
    /\ result.outcome = "ok"
    /\ DOMAIN rawZipHandles = {"public"}
    /\ DOMAIN msgFile["restricted"].records = {}

\* C20: to_staging_upload_files with create=False and no staging directory
\* returns None and changes nothing; with create=True and no staging directory
\* it creates the staging store, which holds the files of both zips when the
\* call succeeds; with create=True and a staging directory it raises
\* FileExistsError and the staging store stays as it is.
C20_ToStaging ==
    [][ result'.op = "to_staging_upload_files" =>
           /\ (~ stagingExists /\ ~ result'.create) =>
                  /\ result'.outcome = "None"
                  /\ UNCHANGED <<stagingVars, publicVars, rawZipRepacked, msgFileRepacked>>
           /\ (~ stagingExists /\ result'.create) =>
                  /\ stagingExists'
                  /\ ~ frozen'
                  /\ result'.outcome = "ok" =>
                         rawTree' = rawZip["public"].names \cup rawZip["restricted"].names
           /\ (stagingExists /\ result'.create) =>
                  /\ result'.outcome = "FileExistsError"
                  /\ UNCHANGED <<stagingVars, publicVars>> ]_vars

\* C20 witness: a create=True call failed on a staging store that holds raw
\* files and archive records.
C20_Witness ==
    /\ result.op = "to_staging_upload_files"
    /\ result.create
    /\ result.outcome = "FileExistsError"
    /\ stagingExists
    /\ rawTree # {}
    /\ stagingArchive # EmptyMap

\* C21 (as claimed): after delete with include_public on a staging store neither
\* the staging directory nor the public directory of the upload exists and
\* UploadFiles.get returns None, whatever prefix_size is.
C21_DeleteRemovesBothTrees ==
    [][ (result'.op = "delete" /\ result'.include_public)
        => /\ ~ stagingExists'
           /\ ~ publicExists'
           /\ \A a \in Access : ~ rawZip'[a].exists /\ ~ msgFile'[a].exists
           /\ get' = "None" ]_vars

\* the other regular files of the mainfile's directory
Siblings(tree, mainfile) ==
    { f \in tree : dirname(f) = dirname(mainfile) /\ f # mainfile }

IsSorted(files) ==
    \A i, j \in 1..Len(files) :
        i < j => Rank(basename(files[i])) < Rank(basename(files[j]))

\* C22 (as claimed): calc_files with with_mainfile returns the mainfile first and
\* then other regular files of its directory in sorted order: all of them
\* without cutoff, at most auxfile_cutoff of them with cutoff; and two calls
\* with the same arguments return the same list whatever order the directory
\* is listed in.
C22_CalcFiles ==
    [][ (result'.op = "calc_files" /\ result'.outcome = "ok" /\ result'.with_mainfile)
        => LET aux_files == Tail(result'.files) IN
           /\ Head(result'.files) = result'.mainfile
           /\ IsSorted(aux_files)
           /\ { aux_files[i] : i \in 1..Len(aux_files) } \subseteq
                  Siblings(rawTree, result'.mainfile)
           /\ result'.with_cutoff => Len(aux_files) <= auxfile_cutoff
           /\ ~ result'.with_cutoff =>
                  { aux_files[i] : i \in 1..Len(aux_files) } = Siblings(rawTree, result'.mainfile)
           /\ (/\ result.op = "calc_files" /\ result.outcome = "ok"
               /\ result.mainfile = result'.mainfile
               /\ result.with_mainfile
               /\ result.with_cutoff = result'.with_cutoff)
                  => result'.files = result.files ]_vars

\* C23 (as claimed): two calc_hash calls for the same mainfile on the same raw
\* tree give the same hash whatever order the directory is listed in; and when
\* the directory already holds auxfile_cutoff aux files, a file added to it
\* (listed after the others) leaves the hash as it was.
C23_CalcHashInvariant ==
    [][ /\ (/\ result.op = "calc_hash" /\ result.outcome = "ok"
            /\ result'.op = "calc_hash" /\ result'.outcome = "ok"
            /\ result'.mainfile = result.mainfile)
              => result'.hash = result.hash
        /\ \A mainfile \in rawTree, file \in rawTree' \ rawTree :
              (/\ rawTree' = rawTree \cup {file}
               /\ dirname(file) = dirname(mainfile)
               /\ Cardinality(Siblings(rawTree, mainfile)) >= auxfile_cutoff)
              => \A listing \in Listings(rawTree, dirname(mainfile)) :
                    calc_hash(rawTree', mainfile, Append(listing, basename(file)))
                       = calc_hash(rawTree, mainfile, listing) ]_vars

\* the calc ids of the entries of the last call with the given embargo flag
EntryIds(call, with_embargo) ==
    { e.calc_id : e \in { x \in call.entries : x.with_embargo = with_embargo } }

\* the files of the raw tree that are in one of the zips
Zipped(zips) ==
    (IF zips["public"].exists THEN zips["public"].names ELSE {}) \cup
    (IF zips["restricted"].exists THEN zips["restricted"].names ELSE {})

\* C24 (as claimed): pack on a store that is not frozen returns normally, and a
\* failure in one output leaves the other outputs written: the restricted
\* archive file after a failure in the public one, both raw zips after a
\* failure in the archive partition, and every other raw file after a failure
\* caused by one entry (its mainfile is missing) or one file of the raw partition.
C24_PackContinues ==
    [][ (result'.op = "pack" /\ ~ frozen)
        => /\ result'.outcome = "ok"
           /\ (~ result'.skip_archive /\ result'.fail = "archive_public")
                 => /\ msgFile'["restricted"].exists
                    /\ DOMAIN msgFile'["restricted"].records = EntryIds(result', TRUE)
           /\ (/\ ~ result'.skip_raw
               /\ result'.fail \in {"archive_public", "archive_restricted"}
               /\ \A e \in result'.entries : e.mainfile \in rawTree)
                 => /\ \A a \in Access : rawZip'[a].exists
                    /\ Zipped(rawZip') = rawTree
           /\ (/\ ~ result'.skip_raw
               /\ result'.fail \in {"none", "archive_public", "archive_restricted"}
               /\ \E e \in result'.entries : e.mainfile \notin rawTree)
                 => Zipped(rawZip') = rawTree
           /\ (~ result'.skip_raw /\ result'.fail \in {"raw_public", "raw_restricted"})
                 => Cardinality(rawTree \ Zipped(rawZip')) <= 1 ]_vars

\* C25 (as claimed): after a pack that writes the archive files every entry is a
\* key of exactly one of them, the public one iff it has no embargo; its value
\* is the staging record, or the empty record when there is none or when it
\* cannot be read (a failure while an archive file is written); and each file
\* holds as many records as there are entries with its embargo flag.
C25_ArchiveCoversEntries ==
    [][ (result'.op = "pack" /\ result'.outcome = "ok" /\ ~ result'.skip_archive)
        => /\ \A a \in Access : msgFile'[a].exists
           /\ DOMAIN msgFile'["public"].records = EntryIds(result', FALSE)
           /\ DOMAIN msgFile'["restricted"].records = EntryIds(result', TRUE)
           /\ \A a \in Access : \A id \in DOMAIN msgFile'[a].records :
                 msgFile'[a].records[id] \in
                    (IF id \in DOMAIN stagingArchive
                     THEN IF result'.fail \in {"archive_public", "archive_restricted"}
                          THEN {stagingArchive[id], EmptyRecord}
                          ELSE {stagingArchive[id]}
                     ELSE {EmptyRecord})
           /\ Cardinality(DOMAIN msgFile'["public"].records) =
                 Cardinality({ e \in result'.entries : ~ e.with_embargo })
           /\ Cardinality(DOMAIN msgFile'["restricted"].records) =
                 Cardinality({ e \in result'.entries : e.with_embargo }) ]_vars

\* the positions inside _parse_content at which a thread builds the cache
Building == {"init", "public", "restricted"}

\* C26 (as claimed): of the threads that call directory-view operations on one
\* store object at most one builds the directory cache, and every answer is
\* the answer computed from the cache built from both zips.
C26_SingleInitialization ==
    [][ /\ \A t, u \in DOMAIN pc' :
              (pc'[t].at \in Building /\ pc'[u].at \in Building) => t = u
        /\ (result' # result /\ result'.op \in DirectoryViews)
              => result'.value =
                    directory_view(result'.op,
                                   parse_content(rawZip["public"].names,
                                                 rawZip["restricted"].names),
                                   result'.path, TRUE) ]_vars

\* the observable events of a pack: output files created, zips written and closed
ArchiveWritten(access) == msgFile[access].exists
ZipCreated(access) == rawZip[access].exists
ZipWritten(access) ==
    rawZip[access].exists /\ ("pack" \in DOMAIN pc => access \in pc["pack"].written)
ZipCompleted(access) ==
    rawZip[access].exists /\ ("pack" \in DOMAIN pc => access \notin pc["pack"].open)

\* every event of the list has happened only if the one before it has
InOrder(events) == \A i \in 2..Len(events) : events[i] => events[i - 1]

\* C27 (as claimed): .frozen, then the public archive file, then the restricted
\* one, then the public zip is created, written and completed, then the
\* restricted zip is created, written and completed.
C27_PackOutputOrder ==
    InOrder(<< frozen, ArchiveWritten("public"), ArchiveWritten("restricted"),
               ZipCreated("public"), ZipWritten("public"), ZipCompleted("public"),
               ZipCreated("restricted"), ZipWritten("restricted"),
               ZipCompleted("restricted") >>)

\* C27 (amended): .frozen, then the public archive file, then the restricted
\* one, then both zips are created (public first), then the members of the
\* public and of the restricted zip are written, then the restricted zip and
\* last the public zip is completed.
C27_PackOutputOrderZipsInterleaved ==
    InOrder(<< frozen, ArchiveWritten("public"), ArchiveWritten("restricted"),
               ZipCreated("public"), ZipCreated("restricted"),
               ZipWritten("public"), ZipWritten("restricted"),
               ZipCompleted("restricted"), ZipCompleted("public") >>)

\* C27 witness: a pack in progress has written members into both zips and
\* closed the restricted one; the public zip is still open.
C27_Witness ==
    /\ "pack" \in DOMAIN pc
    /\ pc["pack"].at = "close_public"
    /\ rawZip["public"].names # {}
    /\ rawZip["restricted"].names # {}
    /\ ZipCompleted("restricted")
    /\ ~ ZipCompleted("public")

\* the zip on disk that holds a raw file
AccessOf(path) ==
    IF rawZip["public"].exists /\ path \in rawZip["public"].names THEN "public"
    ELSE IF rawZip["restricted"].exists /\ path \in rawZip["restricted"].names
    THEN "restricted"
    ELSE "none"

\* C28: the outcome of every read of a public store is determined by the files
\* on disk, the arguments, and the value the access predicate has in this call,
\* whatever the directory cache and the cached handles hold and whatever the
\* predicate was before: raw_file, raw_file_size and read_archive end in
\* Restricted iff the predicate is false and the content is restricted, and
\* the directory views suppress exactly the restricted files then.
C28_PredicateEvaluatedPerCall ==
    [][ /\ result'.op \in {"raw_file", "raw_file_size"} =>
              result'.outcome =
                 IF AccessOf(result'.path) = "none" THEN "KeyError"
                 ELSE IF /\ ~ result'.authorized
                         /\ \/ AccessOf(result'.path) = "restricted"
                            \/ always_restricted(result'.path)
                 THEN "Restricted"
                 ELSE "ok"
        /\ result'.op = "read_archive" =>
              result'.outcome =
                 IF result'.access = "none" THEN "KeyError"
                 ELSE IF result'.access = "restricted" /\ ~ result'.authorized
                 THEN "Restricted"
                 ELSE "ok"
        /\ result'.op = "raw_path_is_file" =>
              result'.value =
                 \/ AccessOf(result'.path) = "public"
                 \/ AccessOf(result'.path) = "restricted" /\ result'.authorized
        /\ (result'.op = "raw_path_exists" /\ AccessOf(result'.path) = "restricted"
                /\ ~ result'.authorized) => ~ result'.value
        /\ result'.op = "raw_directory_list" =>
              { i.path : i \in { j \in result'.infos :
                                   j.is_file /\ dirname(j.path) = result'.path } }
                 = { f \in rawZip["public"].names \cup rawZip["restricted"].names :
                       /\ dirname(f) = result'.path
                       /\ AccessOf(f) = "public" \/ result'.authorized } ]_vars

\* C28 witness: with the directory cache built and both zip handles cached, a
\* raw_file call with the predicate false has ended in Restricted for a file
\* of the restricted zip.
C28_Witness ==
    /\ result.op = "raw_file"
    /\ ~ result.authorized
    /\ result.outcome = "Restricted"
    /\ AccessOf(result.path) = "restricted"
    /\ directories.built
    /\ DOMAIN rawZipHandles = Access

\* the archive file on disk, among the files searched, that holds the record
\* of an entry
ArchiveAccessOf(id, accesses) ==
    LET holding == { i \in 1..Len(accesses) :
                       /\ msgFile[accesses[i]].exists
                       /\ id \in DOMAIN msgFile[accesses[i]].records }
    IN  IF holding = {} THEN "none"
        ELSE accesses[CHOOSE i \in holding : \A j \in holding : i <= j]

\* C29: close can be called any number of times, and whatever handles have been
\* closed, raw_file, raw_file_size and read_archive reopen what they need and
\* return what they return on a store that was never closed: the outcome that
\* follows from the files on disk and the access predicate.
C29_ReadsAfterClose ==
    [][ /\ result'.op = "close" => result'.outcome = "ok"
        /\ result'.op \in {"raw_file", "raw_file_size"} =>
              result'.outcome =
                 IF AccessOf(result'.path) = "none" THEN "KeyError"
                 ELSE IF /\ ~ result'.authorized
                         /\ \/ AccessOf(result'.path) = "restricted"
                            \/ always_restricted(result'.path)
                 THEN "Restricted"
                 ELSE "ok"
        /\ result'.op = "read_archive" =>
              LET access == ArchiveAccessOf(result'.calc_id, result'.accesses) IN
              result'.outcome =
                 IF access = "none" THEN "KeyError"
                 ELSE IF access = "restricted" /\ ~ result'.authorized
                 THEN "Restricted"
                 ELSE "ok" ]_vars

\* C30: UploadFiles.get returns a staging store iff the staging directory of
\* the upload exists, a public store iff it does not and the public directory
\* exists, and None iff neither exists; so while a staging copy exists next
\* to the public upload, get returns the staging store.
C30_Get ==
    [][ result'.op = "get" =>
          /\ (result'.store = "StagingUploadFiles") = stagingExists'
          /\ (result'.store = "PublicUploadFiles") = (~ stagingExists' /\ publicExists')
          /\ (result'.store = "None") = (~ stagingExists' /\ ~ publicExists') ]_vars

\* C30 witness: get has returned the staging store while the staging copy made
\* by to-staging from the public zips exists next to the public upload.
C30_Witness ==
    /\ result.op = "get"
    /\ result.store = "StagingUploadFiles"
    /\ stagingExists
    /\ rawTree # {}
    /\ publicExists
    /\ rawZip["public"].exists

\* C31: the staging tree and the public tree of the upload never exist at the
\* same time, and when a pack has completed the staging tree is gone and
\* UploadFiles.get returns a public store.
C31_ExactlyOneState ==
    [][ /\ ~ (stagingExists' /\ publicExists')
        /\ (result'.op = "pack" /\ result'.outcome = "ok") =>
              (~ stagingExists' /\ get' = "PublicUploadFiles") ]_vars

\* C32: of two pack invocations on the same staging upload at most one passes
\* the .frozen check: never are two callers past the assertion, and a pack that
\* has written its outputs is not followed by the outputs of another pack.
C32_AtMostOnePackPasses ==
    [][ /\ \A t1, t2 \in DOMAIN pc' : t1 = t2
        /\ (result.op = "pack" /\ result.outcome = "ok") =>
              (result'.op = "pack" => result'.outcome = "AssertionError") ]_vars

\* the callers of re_pack that have passed every check and seed the temporary
\* staging or work on the repacked files
Proceeding == { t \in DOMAIN pc : pc[t].at \in {"seed", "write", "delete", "move"} }

\* C33: of two re_pack invocations on the same public upload at most one
\* proceeds to seed the temporary staging and to write repacked files, and a
\* re_pack that does not complete while the other is running has been rejected
\* with FileExistsError.
C33_AtMostOneRepackProceeds ==
    [][ /\ Cardinality(Proceeding') <= 1
        /\ (result'.op = "re_pack" /\ result' # result /\ DOMAIN pc' # {}) =>
              result'.outcome \in {"ok", "FileExistsError"} ]_vars

\* the raw paths at which the regular files, the directories and the links of
\* a source arrive under a target directory
IncomingFiles(source, target) == { target \o f : f \in source.files }
IncomingLinks(source, target) == { target \o l : l \in source.links }
IncomingDirs(source, target) ==
    { target \o d : d \in source.dirs } \cup
    UNION { { target \o SubSeq(e, 1, i) : i \in 1..(Len(e) - 1) } :
              e \in source.files \cup source.dirs \cup source.links }

\* a raw file collides with the call: it lies on the directory chain of the
\* target directory or at the path of an incoming directory, or it is at, above
\* or below the path of an incoming file
Collides(g, source, target) ==
    \/ IsPrefix(g, target)
    \/ \E d \in IncomingDirs(source, target) : IsPrefix(g, d)
    \/ \E n \in IncomingFiles(source, target) : IsPrefix(g, n) \/ IsPrefix(n, g)

\* C34: after a successful add_rawfiles(path, target_dir) every regular file of
\* the source is in the raw tree at target_dir joined with its relative path;
\* no link of the source has been added; a file at the path of an incoming
\* directory or on the directory chain of target_dir is gone (a directory is
\* there); every other raw file that does not collide with an incoming element
\* is still there, also below a directory matched by an incoming directory;
\* and nothing else has appeared.
C34_AddRawfilesMerge ==
    [][ \A source \in MergeSources, target_dir \in MergeTargetDirs :
          (add_rawfiles(source, target_dir, FALSE, "none") /\ result'.outcome = "ok") =>
             LET target == raw_path(rstrip(target_dir)) IN
             /\ IncomingFiles(source, target) \subseteq rawTree'
             /\ \A l \in IncomingLinks(source, target) : l \in rawTree' => l \in rawTree
             /\ \A g \in rawTree :
                   (IsPrefix(g, target) \/ g \in IncomingDirs(source, target)) =>
                      /\ g \notin rawTree'
                      /\ \A h \in rawTree' : ~ IsPrefix(h, g)
             /\ \A g \in rawTree : ~ Collides(g, source, target) => g \in rawTree'
             /\ rawTree' \subseteq rawTree \cup IncomingFiles(source, target) ]_vars

\* C34 witness: a directory with a file b and a link a/main has been merged at
\* a/b into a raw tree that held a/a/main: b is at a/b/b, the link is not in
\* the tree and a/a/main is still there.
C34_Witness ==
    /\ result.op = "add_rawfiles"
    /\ result.outcome = "ok"
    /\ <<A, B, B>> \in rawTree
    /\ <<A, A, Main>> \in rawTree
    /\ <<A, B, A, Main>> \notin rawTree

\* C35: the delete of the temporary staging store of a public upload removes
\* staging state only: the public directory, its live files and its repacked
\* files are as before, whatever prefix_size is.
C35_DeleteKeepsPublic ==
    [][ (result'.op = "delete" /\ publicExists) =>
           /\ ~ stagingExists'
           /\ publicExists'
           /\ rawZip' = rawZip
           /\ msgFile' = msgFile
           /\ rawZipRepacked' = rawZipRepacked
           /\ msgFileRepacked' = msgFileRepacked ]_vars

\* a repacked file or the temporary staging directory of the upload exists
Residue ==
    \/ stagingExists
    \/ \E a \in Access : rawZipRepacked[a].exists \/ msgFileRepacked[a].exists

\* C36: after a successful re_pack there is no repacked file and no
\* temporary staging directory, and a re_pack that follows a successful one is
\* not rejected with FileExistsError.
C36_NoResidue ==
    [][ /\ (result'.op = "re_pack" /\ result'.outcome = "ok") => ~ Residue'
        /\ (result.op = "re_pack" /\ result.outcome = "ok" /\ result'.op = "re_pack") =>
              result'.outcome # "FileExistsError" ]_vars

\* C37: when the write of an entry's archive record fails, the exception
\* reaches the caller and no archive file of that entry is left in the staging
\* store; a read_archive of the entry that follows ends in KeyError (or in
\* Restricted without authorization), never in a record.
C37_FailedWriteLeavesNoFile ==
    [][ /\ (result'.op = "write_archive" /\ result'.outcome # "ok") =>
              /\ result'.outcome = "Exception"
              /\ result'.calc_id \notin DOMAIN stagingArchive'
              /\ \A id \in DOMAIN stagingArchive \ {result'.calc_id} :
                    id \in DOMAIN stagingArchive' /\ stagingArchive'[id] = stagingArchive[id]
        /\ (result.op = "write_archive" /\ result.outcome # "ok"
               /\ result'.op = "read_archive" /\ result'.calc_id = result.calc_id) =>
              result'.outcome = IF result'.authorized THEN "KeyError" ELSE "Restricted" ]_vars

\* C37 witness: the write of a record has failed for an entry that had a
\* record before; the entry has no archive file now, another entry still has.
C37_Witness ==
    /\ result.op = "write_archive"
    /\ result.outcome = "Exception"
    /\ result.calc_id = calc_id(<<A, Main>>)
    /\ calc_id(<<A, Main>>) \notin DOMAIN stagingArchive
    /\ calc_id(<<B, Main>>) \in DOMAIN stagingArchive

\* the files of the zips below a directory that the caller may see
VisibleFilesBelow(path, authorized) ==
    { f \in rawZip["public"].names : IsPrefix(path, f) /\ f # path }
    \cup (IF authorized
          THEN { f \in rawZip["restricted"].names : IsPrefix(path, f) /\ f # path }
          ELSE {})

\* C38: raw_directory_list(path, recursive=True) terminates and yields every
\* visible file below path exactly once, also when a zip has files at its
\* root; the cached directory view has no child with an empty name or path
\* (no directory is its own child).
C38_RecursiveListingTerminates ==
    [][ \A path \in { <<>>, <<A>> }, authorized \in BOOLEAN :
          raw_directory_list(path, TRUE, TRUE, authorized) =>
            /\ result'.outcome = "ok"
            /\ \A i, j \in 1..Len(result'.yielded) :
                  result'.yielded[i] = result'.yielded[j] => i = j
            /\ { info.path : info \in result'.infos } = VisibleFilesBelow(path, authorized)
            /\ \A k \in DOMAIN directories'.map :
                  k[2] # <<>> /\ directories'.map[k].path # k[1] ]_vars

\* C39: pack on the staging store that to-staging made from a public upload
\* writes the two archive files, from the staging records, into the live
\* public directory and nothing else: both raw zips of the public upload stay
\* as they are whatever skip flags the caller passes, no repacked file
\* appears, and the temporary staging is frozen; on a frozen staging store it
\* is rejected and changes nothing.
C39_BasedPackWritesArchiveOnly ==
    [][ \A entries \in RepackEntries, skip_raw \in BOOLEAN, skip_archive \in BOOLEAN :
          public_based_pack(entries, skip_raw, skip_archive, "none") =>
            /\ rawZip' = rawZip
            /\ rawZipRepacked' = rawZipRepacked /\ msgFileRepacked' = msgFileRepacked
            /\ rawTree' = rawTree /\ stagingArchive' = stagingArchive
            /\ frozen'
            /\ IF frozen
               THEN result'.outcome = "AssertionError" /\ msgFile' = msgFile
               ELSE /\ result'.outcome = "ok"
                    /\ msgFile' = pack_archive_files(stagingArchive, entries)
                    /\ \A a \in Access : msgFile'[a].exists ]_vars

\* C39 witness: pack has run on a staging store made by to-staging whose
\* records were edited: the public archive files differ from the records the
\* upload was published with, and the raw zips still hold the raw files.
C39_Witness ==
    /\ result.op = "pack"
    /\ result.target = "public_upload_files"
    /\ result.outcome = "ok"
    /\ frozen
    /\ \E a \in Access : \E id \in DOMAIN msgFile[a].records : msgFile[a].records[id] = EmptyRecord
    /\ \E a \in Access : rawZip[a].exists /\ rawZip[a].names # {}

=============================================================================
